---- MODULE Spec2Model ----
(***************************************************************************)
(* Model of the generic xDS discovery server of                            *)
(* security/pkg/nodeagent/sds/xds.go: the request/ACK state machine        *)
(* (shouldRespond), response emission (pushXds, Connection.send), the      *)
(* per-connection stream loop and the delivery of the engine's pushes      *)
(* (Run, startPush) to the connection.                                     *)
(*                                                                         *)
(* Strings of the program are strings here; "" is Go's empty string.       *)
(* A type-URL is the tuple of its "/"-separated segments, so that          *)
(* strings.HasPrefix is computed and not assumed.  A Go pointer that may   *)
(* be nil is a sequence of length at most one (<<>> is nil).               *)
(***************************************************************************)
EXTENDS Integers, Sequences, FiniteSets, TLC

VARIABLES
    watched,        \* con.proxy.WatchedResources: type-URL -> WatchedResource
    envPushVersion, \* s.Env.PushContext.PushVersion
    Generators,     \* s.Generators: the type-URLs that have a generator
    versionNum,     \* versionNum of Run
    streamState,    \* the main task: "running" or "returned"
    streamErr,      \* the value Stream returned
    last,           \* what the main task did in its latest step (history)
    accepted        \* type-URL -> ResourceNames of the latest accepted request
                    \* (history)

\* the state of one initialized connection (specification Spec)
streamVars == <<watched, envPushVersion, Generators, versionNum, streamState,
                streamErr, last, accepted>>

VARIABLES
    adsClients,       \* s.adsClients: ConID -> connection
    connectionNumber, \* the package counter behind connectionID
    pushChannel,      \* s.pushChannel: the push requests waiting for Run
    engine,           \* Run: its position, versionNum, the request it fans
                      \* out and the connections startPush has yet to reach
    receiver,         \* per connection, the receive task: its position,
                      \* firstRequest, the request in hand, its defers, and
                      \* the health probes it dropped before that request
    initialized,      \* per connection: con.initialized is closed
    reqChan,          \* per connection: con.reqChan (buffer and closed)
    errorChan,        \* per connection: con.errorChan (buffer and closed)
    mainTask,         \* per connection, Stream: its position, the value it
                      \* returned and the select case that ended it
    proxy,            \* per connection: con.ConID and con.proxy
    stopCall,         \* per connection: a caller of Stop() is blocked sending
    received          \* per connection: the pushes its main task received,
                      \* in order, with what it sent for each (history)

\* the state of the server and its streams (specification ServerSpec)
serverVars == <<adsClients, connectionNumber, pushChannel, engine, receiver,
                initialized, reqChan, errorChan, mainTask, proxy, stopCall,
                received>>

VARIABLES
    merged            \* the push request a chain of Merge calls has built

\* the state of a chain of merges (specification MergeSpec)
mergeVars == <<merged>>

VARIABLES
    dispatch          \* s.Generators as a map, the generator fields of one
                      \* proxy, and the generators that built its responses

\* the state of the generator dispatch (specification GeneratorSpec)
generatorVars == <<dispatch>>

vars == <<streamVars, serverVars, mergeVars, generatorVars>>

(***************************************************************************)
(* Bounds of the model.                                                    *)
(***************************************************************************)
\* longest ResourceNames list a request carries
MaxNames == 2
\* number of push requests accepted by ConfigUpdate in one run
MaxPushes == 1

ResourceNameSet == {"a", "b"}

RECURSIVE ListsUpTo(_)
ListsUpTo(n) ==
    IF n = 0 THEN {<<>>}
    ELSE LET shorter == ListsUpTo(n - 1)
         IN  shorter \cup {Append(l, x) : l \in {s \in shorter : Len(s) = n - 1},
                                          x \in ResourceNameSet}

NameLists == ListsUpTo(MaxNames)

(***************************************************************************)
(* Type-URLs.                                                              *)
(***************************************************************************)
SecretType == <<"type.googleapis.com", "envoy.extensions.transport_sockets.tls.v3.Secret">>
ClusterType == <<"type.googleapis.com", "envoy.config.cluster.v3.Cluster">>
DebugType == <<"istio.io", "debug">>
DebugSynczType == <<"istio.io", "debug", "syncz">>

TypeUrls == {SecretType, ClusterType, DebugSynczType}

\* strings.HasPrefix
HasPrefix(s, prefix) ==
    /\ Len(s) >= Len(prefix)
    /\ SubSeq(s, 1, Len(prefix)) = prefix

(***************************************************************************)
(* Versions and nonces.                                                    *)
(***************************************************************************)
\* a PushVersion without the counter
PushVersion_NoCounter(n) == "t/"

\* Run: time.Now().Format(time.RFC3339) + "/" + strconv.FormatUint(versionNum, 10);
\* the wall-clock prefix is the constant "t".
PushVersion(n) == "t/" \o ToString(n)

\* the PushVersion of the PushContext the server was constructed with
EnvVersions == {"", "env"}

\* the nonces a client may answer: none, and those the server can have sent
Nonces == {"", envPushVersion} \cup {PushVersion(n) : n \in 1..MaxPushes}

\* discovery.DiscoveryRequest.  Every response of this server has VersionInfo
\* = Nonce, and the client echoes both; ErrorDetail is nil (FALSE) or set.
Requests ==
    {r \in [TypeUrl : TypeUrls, VersionInfo : Nonces, ResponseNonce : Nonces,
            ResourceNames : NameLists, ErrorDetail : BOOLEAN] :
        r.VersionInfo = r.ResponseNonce}

(***************************************************************************)
(* The watched-resource table of a proxy.                                  *)
(***************************************************************************)
\* model.WatchedResource with every field but TypeUrl at Go's zero value.
\* LastSent is "zero" (the zero time) or "set" (the time of some send);
\* LastSize counts the resources of the last response.
ZeroWatchedResource(typeUrl) ==
    [TypeUrl |-> typeUrl, ResourceNames |-> <<>>,
     VersionSent |-> "", VersionAcked |-> "",
     NonceSent |-> "", NonceAcked |-> "", NonceNacked |-> "",
     LastRequest |-> <<>>, LastSent |-> "zero", LastSize |-> 0]

\* w[typeUrl] = wr
Put(w, typeUrl, wr) ==
    [t \in DOMAIN w \cup {typeUrl} |-> IF t = typeUrl THEN wr ELSE w[t]]

\* delete(w, typeUrl)
Delete(w, typeUrl) == [t \in DOMAIN w \ {typeUrl} |-> w[t]]

\* Connection.Watched: the WatchedResource of the type (<<>>: nil)
Watched(w, typeUrl) == IF typeUrl \in DOMAIN w THEN <<w[typeUrl]>> ELSE <<>>

\* isWildcardTypeURL with no type left out of the wildcard types
isWildcardTypeURL_AllWildcard(typeURL) == TRUE

isWildcardTypeURL(typeURL) == typeURL # SecretType

shouldUnsubscribe(request) ==
    Len(request.ResourceNames) = 0 /\ ~isWildcardTypeURL(request.TypeUrl)

listEqualUnordered(a, b) ==
    IF Len(a) # Len(b) THEN FALSE
    ELSE LET first == {a[i] : i \in DOMAIN a}
         IN  \A i \in DOMAIN b : b[i] \in first

\* the NACK branch recording the NACK as an ACK
NackUpdate_AsAck(w, request) ==
    IF request.TypeUrl \in DOMAIN w
    THEN [w EXCEPT ![request.TypeUrl].NonceAcked = request.ResponseNonce]
    ELSE w

\* the NACK branch: NonceNacked of an existing WatchedResource
NackUpdate(w, request) ==
    IF request.TypeUrl \in DOMAIN w
    THEN [w EXCEPT ![request.TypeUrl].NonceNacked = request.ResponseNonce]
    ELSE w

\* the INIT branch forgetting the ResourceNames of the request
InitWatched_NoNames(request) ==
    [ZeroWatchedResource(request.TypeUrl) EXCEPT !.LastRequest = <<request>>]

\* the WatchedResource the INIT branch stores
InitWatched(request) ==
    [ZeroWatchedResource(request.TypeUrl) EXCEPT
        !.ResourceNames = request.ResourceNames,
        !.LastRequest = <<request>>]

\* the RECONNECT branch forgetting the ResourceNames of the request
ReconnectWatched_NoNames(request) ==
    [ZeroWatchedResource(request.TypeUrl) EXCEPT !.LastRequest = <<request>>]

\* the WatchedResource the RECONNECT branch stores
ReconnectWatched(request) ==
    [ZeroWatchedResource(request.TypeUrl) EXCEPT
        !.ResourceNames = request.ResourceNames,
        !.LastRequest = <<request>>]

\* the stale-nonce branch storing the ResourceNames of the request
StaleUpdate_StoreNames(w, request) ==
    [w EXCEPT ![request.TypeUrl].NonceNacked = "",
              ![request.TypeUrl].ResourceNames = request.ResourceNames,
              ![request.TypeUrl].LastRequest = <<request>>]

\* the stale-nonce branch leaving NonceNacked as it was
StaleUpdate_KeepNacked(w, request) ==
    [w EXCEPT ![request.TypeUrl].LastRequest = <<request>>]

\* the stale-nonce branch
StaleUpdate(w, request) ==
    [w EXCEPT ![request.TypeUrl].NonceNacked = "",
              ![request.TypeUrl].LastRequest = <<request>>]

\* the nonce-match branch without the write of NonceAcked
AckUpdate_NoNonceAcked(w, request) ==
    [w EXCEPT ![request.TypeUrl].VersionAcked = request.VersionInfo,
              ![request.TypeUrl].NonceNacked = "",
              ![request.TypeUrl].ResourceNames = request.ResourceNames,
              ![request.TypeUrl].LastRequest = <<request>>]

\* the writes of the nonce-match branch
AckUpdate(w, request) ==
    [w EXCEPT ![request.TypeUrl].VersionAcked = request.VersionInfo,
              ![request.TypeUrl].NonceAcked = request.ResponseNonce,
              ![request.TypeUrl].NonceNacked = "",
              ![request.TypeUrl].ResourceNames = request.ResourceNames,
              ![request.TypeUrl].LastRequest = <<request>>]

\* shouldRespond with the unsubscribe test ahead of the ErrorDetail test
shouldRespond_UnsubscribeFirst(w, request) ==
    IF shouldUnsubscribe(request)
    THEN [respond |-> FALSE, watched |-> Delete(w, request.TypeUrl)]
    ELSE IF request.ErrorDetail
    THEN [respond |-> FALSE, watched |-> NackUpdate(w, request)]
    ELSE IF request.ResponseNonce = ""
    THEN [respond |-> TRUE,
          watched |-> Put(w, request.TypeUrl, InitWatched(request))]
    ELSE IF request.TypeUrl \notin DOMAIN w
    THEN [respond |-> TRUE,
          watched |-> Put(w, request.TypeUrl, ReconnectWatched(request))]
    ELSE IF request.ResponseNonce # w[request.TypeUrl].NonceSent
    THEN [respond |-> FALSE, watched |-> StaleUpdate(w, request)]
    ELSE [respond |-> ~listEqualUnordered(w[request.TypeUrl].ResourceNames,
                                          request.ResourceNames),
          watched |-> AckUpdate(w, request)]

\* shouldRespond answering an INIT only when it brings a new subscription
shouldRespond_InitOnce(w, request) ==
    IF request.ErrorDetail
    THEN [respond |-> FALSE, watched |-> NackUpdate(w, request)]
    ELSE IF shouldUnsubscribe(request)
    THEN [respond |-> FALSE, watched |-> Delete(w, request.TypeUrl)]
    ELSE IF request.ResponseNonce = ""
    THEN [respond |-> ~(/\ request.TypeUrl \in DOMAIN w
                         /\ w[request.TypeUrl].ResourceNames =
                                request.ResourceNames),
          watched |-> IF /\ request.TypeUrl \in DOMAIN w
                         /\ w[request.TypeUrl].ResourceNames =
                                request.ResourceNames
                      THEN w
                      ELSE Put(w, request.TypeUrl, InitWatched(request))]
    ELSE IF request.TypeUrl \notin DOMAIN w
    THEN [respond |-> TRUE,
          watched |-> Put(w, request.TypeUrl, ReconnectWatched(request))]
    ELSE IF request.ResponseNonce # w[request.TypeUrl].NonceSent
    THEN [respond |-> FALSE, watched |-> StaleUpdate(w, request)]
    ELSE [respond |-> ~listEqualUnordered(w[request.TypeUrl].ResourceNames,
                                          request.ResourceNames),
          watched |-> AckUpdate(w, request)]

\* shouldRespond: the result and the table it leaves
shouldRespond(w, request) ==
    IF request.ErrorDetail
    THEN [respond |-> FALSE, watched |-> NackUpdate(w, request)]
    ELSE IF shouldUnsubscribe(request)
    THEN [respond |-> FALSE, watched |-> Delete(w, request.TypeUrl)]
    ELSE IF request.ResponseNonce = ""
    THEN [respond |-> TRUE,
          watched |-> Put(w, request.TypeUrl, InitWatched(request))]
    ELSE IF request.TypeUrl \notin DOMAIN w
    THEN [respond |-> TRUE,
          watched |-> Put(w, request.TypeUrl, ReconnectWatched(request))]
    ELSE IF request.ResponseNonce # w[request.TypeUrl].NonceSent
    THEN [respond |-> FALSE, watched |-> StaleUpdate(w, request)]
    ELSE [respond |-> ~listEqualUnordered(w[request.TypeUrl].ResourceNames,
                                          request.ResourceNames),
          watched |-> AckUpdate(w, request)]

(***************************************************************************)
(* Response emission.                                                      *)
(***************************************************************************)
\* what a generator and the transport may do
GenOutcomes == {"resources", "nil", "error"}
SendOutcomes == {"ok", "fail"}
\* the pairs that differ in effect: the transport acts only on resources
Outcomes == {<<"resources", "ok">>, <<"resources", "fail">>,
             <<"nil", "ok">>, <<"error", "ok">>}

\* XdsResourceGenerator.Generate: the resources of the watched names, nil,
\* or an error
Generate(wr, outcome) ==
    [res |-> IF outcome = "resources" THEN <<wr.ResourceNames>> ELSE <<>>,
     err |-> IF outcome = "error" THEN "generatorError" ELSE "nil"]

\* what one call (pushXds, send) leaves: the table, the responses written to
\* the stream and the error returned
Result(w, sent, err) == [watched |-> w, sent |-> sent, err |-> err]

\* Connection.send without the write of VersionSent
send_NoVersionSent(w, res, sendOutcome) ==
    IF sendOutcome = "ok"
    THEN IF res.Nonce # "" /\ ~HasPrefix(res.TypeUrl, DebugType)
         THEN LET w1 == IF res.TypeUrl \notin DOMAIN w
                        THEN Put(w, res.TypeUrl, ZeroWatchedResource(res.TypeUrl))
                        ELSE w
              IN  Result([w1 EXCEPT ![res.TypeUrl].NonceSent = res.Nonce,
                                    ![res.TypeUrl].LastSent = "set",
                                    ![res.TypeUrl].LastSize = Len(res.Resources)],
                         <<res>>, "nil")
         ELSE Result(w, <<res>>, "nil")
    ELSE Result(w, <<>>, "sendError")

\* Connection.send
send(w, res, sendOutcome) ==
    IF sendOutcome = "ok"
    THEN IF res.Nonce # "" /\ ~HasPrefix(res.TypeUrl, DebugType)
         THEN LET w1 == IF res.TypeUrl \notin DOMAIN w
                        THEN Put(w, res.TypeUrl, ZeroWatchedResource(res.TypeUrl))
                        ELSE w
              IN  Result([w1 EXCEPT ![res.TypeUrl].NonceSent = res.Nonce,
                                    ![res.TypeUrl].VersionSent = res.VersionInfo,
                                    ![res.TypeUrl].LastSent = "set",
                                    ![res.TypeUrl].LastSize = Len(res.Resources)],
                         <<res>>, "nil")
         ELSE Result(w, <<res>>, "nil")
    ELSE Result(w, <<>>, "sendError")

\* pushXds that fails when the type has no generator
pushXds_NoGeneratorIsFatal(w, pushVersion, wr, genOutcome, sendOutcome) ==
    IF wr = <<>> THEN Result(w, <<>>, "nil")
    ELSE IF wr[1].TypeUrl \notin Generators
         THEN Result(w, <<>>, "generatorError")
    ELSE LET gen == Generate(wr[1], genOutcome)
         IN  IF gen.err # "nil" \/ gen.res = <<>>
             THEN Result(w, <<>>, gen.err)
             ELSE LET sendResult == send(w, [TypeUrl |-> wr[1].TypeUrl,
                                            VersionInfo |-> pushVersion,
                                            Nonce |-> pushVersion,
                                            Resources |-> gen.res[1]],
                                        sendOutcome)
                  IN  Result(sendResult.watched, sendResult.sent, gen.err)

\* pushXds that returns nil when the generator returns an error
pushXds_ErrorAsNil(w, pushVersion, wr, genOutcome, sendOutcome) ==
    IF wr = <<>> THEN Result(w, <<>>, "nil")
    ELSE IF wr[1].TypeUrl \notin Generators THEN Result(w, <<>>, "nil")
    ELSE LET gen == Generate(wr[1], genOutcome)
         IN  IF gen.err # "nil" \/ gen.res = <<>>
             THEN Result(w, <<>>, "nil")
             ELSE LET sendResult == send(w, [TypeUrl |-> wr[1].TypeUrl,
                                            VersionInfo |-> pushVersion,
                                            Nonce |-> pushVersion,
                                            Resources |-> gen.res[1]],
                                        sendOutcome)
                  IN  Result(sendResult.watched, sendResult.sent, gen.err)

\* pushXds for the WatchedResource wr (<<>>: nil) and the PushContext whose
\* PushVersion is pushVersion.  The error of con.send is bound to a variable
\* err of the if statement alone (`if err := con.send(resp); err != nil`); the
\* final `return err` returns the err of Generate, which is nil there.
pushXds(w, pushVersion, wr, genOutcome, sendOutcome) ==
    IF wr = <<>> THEN Result(w, <<>>, "nil")
    ELSE IF wr[1].TypeUrl \notin Generators THEN Result(w, <<>>, "nil")
    ELSE LET gen == Generate(wr[1], genOutcome)
         IN  IF gen.err # "nil" \/ gen.res = <<>>
             THEN Result(w, <<>>, gen.err)
             ELSE LET sendResult == send(w, [TypeUrl |-> wr[1].TypeUrl,
                                            VersionInfo |-> pushVersion,
                                            Nonce |-> pushVersion,
                                            Resources |-> gen.res[1]],
                                        sendOutcome)
                  IN  Result(sendResult.watched, sendResult.sent, gen.err)

\* processRequest: shouldRespond, then pushXds with the global push context
processRequest(w, pushVersion, req, genOutcome, sendOutcome) ==
    LET sr == shouldRespond(w, req)
    IN  IF sr.respond
        THEN pushXds(sr.watched, pushVersion, Watched(sr.watched, req.TypeUrl),
                     genOutcome, sendOutcome)
        ELSE Result(sr.watched, <<>>, "nil")

\* PushOrder and KnownOrderedTypeUrls
PushOrder == <<SecretType>>
KnownOrderedTypeUrls == {SecretType}

RECURSIVE IterationOrders(_)
IterationOrders(S) ==
    IF S = {} THEN {<<>>}
    ELSE UNION {{<<x>> \o p : p \in IterationOrders(S \ {x})} : x \in S}

\* orderWatchedResources without PushOrder: the order of the map iteration
orderWatchedResources_MapOrder(w) == IterationOrders(DOMAIN w)

\* orderWatchedResources: the types of PushOrder that are watched, in that
\* order, then the others in the order the map iteration yields them
orderWatchedResources(w) ==
    LET known == SelectSeq(PushOrder, LAMBDA tp : tp \in DOMAIN w)
    IN  {known \o rest : rest \in IterationOrders(DOMAIN w \ KnownOrderedTypeUrls)}

\* the loop of pushConnection over the ordered types; it stops at the first
\* error.  The WatchedResource pointers were taken before the loop.
RECURSIVE pushLoop(_, _, _, _, _, _)
pushLoop(w, pushVersion, order, genOutcome, sendOutcome, sent) ==
    IF order = <<>> THEN Result(w, sent, "nil")
    ELSE LET tp == Head(order)
             r  == pushXds(w, pushVersion, Watched(w, tp),
                           genOutcome[tp], sendOutcome[tp])
         IN  IF r.err # "nil"
             THEN Result(r.watched, sent \o r.sent, r.err)
             ELSE pushLoop(r.watched, pushVersion, Tail(order), genOutcome,
                           sendOutcome, sent \o r.sent)

\* pushConnection
pushConnection(w, pushVersion, needsPush, order, genOutcome, sendOutcome) ==
    IF ~needsPush THEN Result(w, <<>>, "nil")
    ELSE pushLoop(w, pushVersion, order, genOutcome, sendOutcome, <<>>)

\* Connection.Synced, first result
Synced(w, typeUrl) ==
    LET acked  == w[typeUrl].NonceAcked
        sent   == w[typeUrl].NonceSent
        nacked == w[typeUrl].NonceNacked # ""
    IN  nacked \/ acked = sent

(***************************************************************************)
(* The server: streams with their two tasks, the connection registry and   *)
(* the push engine.                                                        *)
(***************************************************************************)
\* number of RPCs the server gets
MaxConns == 2
\* number of ConfigUpdate calls in one run of FanoutSpec
MaxConfigUpdates == 2
\* number of ConfigUpdate calls in one run of ServerSpec
MaxServerPushes == 1
\* number of ConfigUpdate calls in one run of EngineSpec: one more than the
\* global push channel holds
MaxQueuedUpdates == 11
\* number of RPCs the server gets in one run of EngineSpec
MaxEngineConns == 1
\* number of health probes a client sends before its first request
MaxProbes == 1
\* number of messages other than health probes a client sends on a stream
MaxMessages == 1
\* number of connections Stop() is called on in one run
MaxStops == 1

Conns == 1..MaxConns

\* capacity of s.pushChannel
PushChannelCap == 10

HealthInfoType == <<"type.googleapis.com", "istio.v1.HealthInformation">>

\* status.New(code, msg).Err(), as the string Error() gives
statusErr(code, msg) == "rpc error: code = " \o code \o " desc = " \o msg

StatusCodes == {"InvalidArgument", "Unimplemented"}
StatusMessages == {"missing node information", "delta ads is not supported"}

\* status.Code(err): OK for nil, the code of a status error, Unknown for any
\* other error
Code(err) ==
    IF err = "nil" THEN "OK"
    ELSE IF \E c \in StatusCodes, m \in StatusMessages : err = statusErr(c, m)
         THEN CHOOSE c \in StatusCodes :
                  \E m \in StatusMessages : err = statusErr(c, m)
         ELSE "Unknown"

\* an error that is not a gRPC status
MissingNode_Plain == "missing node information"

\* the error of the receive task for a first request without node id
MissingNode == statusErr("InvalidArgument", "missing node information")

\* the error DeltaAggregatedResources returns: fmt.Errorf, not a status
DeltaError == "delta ads is not supported"

\* the Node of a message: nil, a node with an empty id, a node with an id
Nodes == {<<>>, <<"">>, <<"sidecar~proxy">>}

\* the request a stream's client subscribes with
SubscribeRequest ==
    [TypeUrl |-> SecretType, VersionInfo |-> "", ResponseNonce |-> "",
     ResourceNames |-> <<"a">>, ErrorDetail |-> FALSE]

\* a health probe
ProbeRequest ==
    [TypeUrl |-> HealthInfoType, VersionInfo |-> "", ResponseNonce |-> "",
     ResourceNames |-> <<>>, ErrorDetail |-> FALSE]

\* what Recv returns without error: a request and its Node
Messages ==
    {[req |-> SubscribeRequest, Node |-> n] : n \in Nodes}
        \cup {[req |-> ProbeRequest, Node |-> <<>>]}

\* a channel of Go: its buffered values and whether it is closed
EmptyChan == [buf |-> <<>>, closed |-> FALSE]

\* a connectionID without the counter
connectionID_NodeOnly(node, id) == node

\* connectionID
connectionID(node, id) == node \o "-" \o ToString(id)

\* a snapshot that lists every connection twice
AllClients_Repeated(clients) ==
    {o \o o : o \in IterationOrders({clients[id] : id \in DOMAIN clients})}

\* AllClients: the connections of the registry, in the order the iteration
\* over the map yields them
AllClients(clients) ==
    IterationOrders({clients[id] : id \in DOMAIN clients})

\* removeCon
removeCon(clients, conID) ==
    [id \in DOMAIN clients \ {conID} |-> clients[id]]

\* an addCon that registers nothing
addCon_Nothing(clients, conID, con) == clients

\* addCon
addCon(clients, conID, con) ==
    [id \in DOMAIN clients \cup {conID} |->
        IF id = conID THEN con ELSE clients[id]]

\* closeConnection
closeConnection(clients, conID) ==
    IF conID = "" THEN clients ELSE removeCon(clients, conID)

\* NewGenericXdsServer; no RPC has invoked its handler yet
ServerInit ==
    /\ adsClients = <<>>
    /\ connectionNumber = 0
    /\ pushChannel = <<>>
    /\ engine = [pc |-> "idle", versionNum |-> 0, req |-> <<>>,
                 clients |-> <<>>, targets |-> <<>>, enqueued |-> 0]
    /\ receiver = [c \in Conns |->
                      [pc |-> "none", firstRequest |-> TRUE,
                       missingNode |-> FALSE, recvErr |-> "none",
                       deferClose |-> FALSE, msg |-> <<>>, read |-> 0,
                       probes |-> 0]]
    /\ initialized = [c \in Conns |-> FALSE]
    /\ reqChan = [c \in Conns |-> EmptyChan]
    /\ errorChan = [c \in Conns |-> EmptyChan]
    /\ mainTask = [c \in Conns |->
                      [pc |-> "rpc", ret |-> "nil", exit |-> "none",
                       handled |-> 0]]
    /\ proxy = [c \in Conns |-> [ConID |-> "", proxy |-> <<>>]]
    /\ stopCall = [c \in Conns |-> FALSE]
    /\ received = [c \in Conns |-> <<>>]

(***************************************************************************)
(* The state machine: the main task of one initialized connection.         *)
(***************************************************************************)
\* op: the case of the select; before: the type-URLs watched before the step;
\* respond: the result of shouldRespond; version: the PushVersion of the
\* PushContext the step used; sent: the responses it wrote to the stream;
\* err: the error of the handler; repeat: the request of the step is the
\* LastRequest the WatchedResource of its type held before the step; order:
\* the type-URLs the step had to call pushXds for, in the order of the calls
\* if none fails; outcome: per type of order, what its generator and the
\* transport do when they are called
NoStep == [op |-> "none", before |-> {}, respond |-> FALSE, version |-> "",
           sent |-> <<>>, err |-> "nil", repeat |-> FALSE, order |-> <<>>,
           outcome |-> <<>>]

\* An initialized connection: its proxy has an empty table (initializeProxy).
StreamInit ==
    /\ watched = <<>>
    /\ envPushVersion \in EnvVersions
    /\ Generators = TypeUrls
    /\ versionNum = 0
    /\ streamState = "running"
    /\ streamErr = "nil"
    /\ last = NoStep
    /\ accepted = <<>>

Init ==
    /\ StreamInit
    /\ ServerInit
    /\ merged = <<>>
    /\ dispatch = <<>>

\* The requests the protocol accepts: no ErrorDetail, not an unsubscribe, and
\* an empty nonce (INIT), no WatchedResource of the type (RECONNECT) or the
\* nonce sent (ACK, RESOURCE-CHANGE).
IsAccepted(w, r) ==
    /\ ~r.ErrorDetail
    /\ ~(r.ResourceNames = <<>> /\ r.TypeUrl = SecretType)
    /\ \/ r.ResponseNonce = ""
       \/ r.TypeUrl \notin DOMAIN w
       \/ r.ResponseNonce = w[r.TypeUrl].NonceSent

\* the history of accepted requests after request r arrived in table w: the
\* names of an accepted request replace those of its type, an unsubscribe
\* ends the history of its type
AcceptedAfter(acc, w, r) ==
    IF IsAccepted(w, r) THEN Put(acc, r.TypeUrl, r.ResourceNames)
    ELSE IF ~r.ErrorDetail /\ r.ResourceNames = <<>> /\ r.TypeUrl = SecretType
         THEN Delete(acc, r.TypeUrl)
         ELSE acc

\* what the main task does with the result of a handler: a non-nil error
\* ends Stream
MainStep(op, respond, version, r, repeat, order, outcome) ==
    /\ watched' = r.watched
    /\ last' = [op |-> op, before |-> DOMAIN watched, respond |-> respond,
                version |-> version, sent |-> r.sent, err |-> r.err,
                repeat |-> repeat, order |-> order,
                outcome |-> [i \in DOMAIN order |-> outcome[order[i]]]]
    /\ streamState' = IF r.err # "nil" THEN "returned" ELSE "running"
    /\ streamErr' = r.err

\* The client of the connection subscribes to one type-URL at a time: it
\* turns to another type when it watches none.  shouldRespond and send read
\* and write the entry of the request's (response's) type-URL only.
OneTypeAtATime(w, typeUrl) == DOMAIN w \subseteq {typeUrl}

\* Stream, case req := <-con.reqChan with ok: processRequest
ProcessRequest ==
    /\ streamState = "running"
    /\ \E req \in Requests :
          /\ OneTypeAtATime(watched, req.TypeUrl)
          /\ LET sr == shouldRespond(watched, req)
             IN  \E o \in IF sr.respond THEN Outcomes ELSE {<<"nil", "ok">>} :
                    MainStep("request", sr.respond, envPushVersion,
                             processRequest(watched, envPushVersion, req,
                                            o[1], o[2]),
                             Watched(watched, req.TypeUrl) # <<>>
                                 /\ watched[req.TypeUrl].LastRequest = <<req>>,
                             IF sr.respond THEN <<req.TypeUrl>> ELSE <<>>,
                             [t \in {req.TypeUrl} |-> o])
          /\ accepted' = AcceptedAfter(accepted, watched, req)
    /\ UNCHANGED <<envPushVersion, Generators, versionNum, serverVars,
                   mergeVars, generatorVars>>

\* Run, case pushRequest := <-s.pushChannel, whose startPush sends the request
\* with its new PushContext on the unbuffered con.pushChannel, and Stream, case
\* pushReq := <-con.pushChannel, which receives it and runs pushConnection
PushConnection ==
    /\ streamState = "running"
    /\ versionNum < MaxPushes
    /\ versionNum' = versionNum + 1
    /\ \E needsPush \in BOOLEAN, order \in orderWatchedResources(watched),
          o \in [DOMAIN watched -> Outcomes] :
          MainStep("push", FALSE, PushVersion(versionNum + 1),
                   pushConnection(watched, PushVersion(versionNum + 1), needsPush,
                                  order, [t \in DOMAIN watched |-> o[t][1]],
                                  [t \in DOMAIN watched |-> o[t][2]]),
                   FALSE, IF needsPush THEN order ELSE <<>>, o)
    /\ UNCHANGED <<envPushVersion, Generators, accepted, serverVars,
                   mergeVars, generatorVars>>

Next ==
    \/ ProcessRequest
    \/ PushConnection

Spec == Init /\ [][Next]_vars

(***************************************************************************)
(* The main task of a connection whose client watches several type-URLs,   *)
(* on a server where any set of type-URLs has a generator.                 *)
(***************************************************************************)
\* the first requests of a client for a type: no nonce, no ErrorDetail, one
\* resource name
FirstRequests ==
    {r \in Requests : /\ r.ResponseNonce = ""
                      /\ ~r.ErrorDetail
                      /\ Len(r.ResourceNames) = 1}

\* NewXdsServer leaves s.Generators empty; the owner of the server registers
\* generators before it serves
PushInit ==
    /\ watched = <<>>
    /\ envPushVersion \in EnvVersions
    /\ Generators \in SUBSET TypeUrls
    /\ versionNum = 0
    /\ streamState = "running"
    /\ streamErr = "nil"
    /\ last = NoStep
    /\ accepted = <<>>
    /\ ServerInit
    /\ merged = <<>>
    /\ dispatch = <<>>

\* Stream, case req := <-con.reqChan with ok: processRequest of the first
\* request for a type-URL, whatever other types the connection watches
FirstRequest ==
    /\ streamState = "running"
    /\ \E req \in FirstRequests :
          /\ req.TypeUrl \notin DOMAIN watched
          /\ LET sr == shouldRespond(watched, req)
             IN  \E o \in IF sr.respond THEN Outcomes ELSE {<<"nil", "ok">>} :
                    MainStep("request", sr.respond, envPushVersion,
                             processRequest(watched, envPushVersion, req,
                                            o[1], o[2]),
                             FALSE,
                             IF sr.respond THEN <<req.TypeUrl>> ELSE <<>>,
                             [t \in {req.TypeUrl} |-> o])
          /\ accepted' = AcceptedAfter(accepted, watched, req)
    /\ UNCHANGED <<envPushVersion, Generators, versionNum, serverVars,
                   mergeVars, generatorVars>>

PushNext ==
    \/ FirstRequest
    \/ PushConnection

PushSpec == PushInit /\ [][PushNext]_vars


(***************************************************************************)
(* The tasks of the server.  A step of a task is what it does between two  *)
(* points where it can block or another task can observe it.               *)
(***************************************************************************)
\* where the receive task goes when it returns: its deferred calls run last
\* registered first, closeConnection (if registered) before the channels
returnPc(r) == IF r.deferClose THEN "closeConnection" ELSE "closeChans"

\* ch <- v on a channel with room
chanSend(ch, v) == [ch EXCEPT !.buf = Append(@, v)]

\* a receive that takes the value sent last
chanRecv_Lifo(q) == [val |-> q[Len(q)], rest |-> SubSeq(q, 1, Len(q) - 1)]

\* <-ch on a channel that holds a value
chanRecv(q) == [val |-> Head(q), rest |-> Tail(q)]

\* a receive task that swallows every error of Recv()
RecvError_SwallowAll(c) ==
    /\ receiver[c].pc = "recv"
    /\ \E expected \in BOOLEAN :
          /\ errorChan' = errorChan
          /\ receiver' = [receiver EXCEPT
                             ![c].recvErr = IF expected THEN "expected"
                                            ELSE "unexpected",
                             ![c].pc = returnPc(receiver[c])]
    /\ UNCHANGED <<adsClients, connectionNumber, pushChannel, engine,
                 initialized, reqChan, mainTask, proxy, stopCall, received,
                 streamVars, mergeVars, generatorVars>>

\* receive: con.stream.Recv() fails; an expected termination is swallowed, any
\* other error goes to errorChan (recvErr: which of the two it was)
RecvError(c) ==
    /\ receiver[c].pc = "recv"
    /\ \E expected \in BOOLEAN :
          /\ errorChan' = IF expected THEN errorChan
                          ELSE [errorChan EXCEPT
                                   ![c] = chanSend(@, "recvError")]
          /\ receiver' = [receiver EXCEPT
                             ![c].recvErr = IF expected THEN "expected"
                                            ELSE "unexpected",
                             ![c].pc = returnPc(receiver[c])]
    /\ UNCHANGED <<adsClients, connectionNumber, pushChannel, engine,
                 initialized, reqChan, mainTask, proxy, stopCall, received,
                 streamVars, mergeVars, generatorVars>>

\* a receive task that takes a health probe for the first request
RecvProbe_AsFirstRequest(c) ==
    /\ receiver[c].pc = "recv"
    /\ receiver[c].firstRequest
    /\ receiver[c].probes < MaxProbes
    /\ receiver' = [receiver EXCEPT ![c].probes = @ + 1,
                                    ![c].firstRequest = FALSE]
    /\ UNCHANGED <<adsClients, connectionNumber, pushChannel, engine,
                 initialized, reqChan, errorChan, mainTask, proxy, stopCall,
                 received, streamVars, mergeVars, generatorVars>>

\* receive: Recv() yields a health probe before the first request
RecvProbe(c) ==
    /\ receiver[c].pc = "recv"
    /\ receiver[c].firstRequest
    /\ receiver[c].probes < MaxProbes
    /\ \E m \in Messages :
          /\ m.req.TypeUrl = HealthInfoType
          /\ receiver' = [receiver EXCEPT ![c].probes = @ + 1]
    /\ UNCHANGED <<adsClients, connectionNumber, pushChannel, engine,
                 initialized, reqChan, errorChan, mainTask, proxy, stopCall,
                 received, streamVars, mergeVars, generatorVars>>

\* receive: Recv() yields a request; the first one must carry a node id
\* (missingNode: the test of line 192 found none)
RecvRequest(c) ==
    /\ receiver[c].pc = "recv"
    /\ receiver[c].read < MaxMessages
    /\ \E m \in Messages :
          /\ m.req.TypeUrl # HealthInfoType
          /\ receiver[c].firstRequest \/ m.Node = <<>>
          /\ IF receiver[c].firstRequest
             THEN IF m.Node = <<>> \/ m.Node[1] = ""
                  THEN /\ errorChan' = [errorChan EXCEPT
                                           ![c] = chanSend(@, MissingNode)]
                       /\ receiver' = [receiver EXCEPT
                                          ![c].firstRequest = FALSE,
                                          ![c].missingNode = TRUE,
                                          ![c].read = @ + 1,
                                          ![c].pc = returnPc(receiver[c])]
                  ELSE /\ errorChan' = errorChan
                       /\ receiver' = [receiver EXCEPT
                                          ![c].firstRequest = FALSE,
                                          ![c].read = @ + 1,
                                          ![c].msg = <<m>>,
                                          ![c].pc = "initConnection"]
             ELSE /\ errorChan' = errorChan
                  /\ receiver' = [receiver EXCEPT ![c].read = @ + 1,
                                                  ![c].msg = <<m>>,
                                                  ![c].pc = "forward"]
    /\ UNCHANGED <<adsClients, connectionNumber, pushChannel, engine,
                 initialized, reqChan, mainTask, proxy, stopCall, received,
                 streamVars, mergeVars, generatorVars>>

\* receive: initConnection up to addCon; initProxyMetadata may fail
InitConnection(c) ==
    /\ receiver[c].pc = "initConnection"
    /\ \E metadataOk \in BOOLEAN :
          IF metadataOk
          THEN LET id == connectionNumber + 1
                   conID == connectionID(receiver[c].msg[1].Node[1], id)
               IN  /\ connectionNumber' = id
                   /\ proxy' = [proxy EXCEPT
                                   ![c] = [ConID |-> conID,
                                           proxy |-> <<[WatchedResources |-> <<>>]>>]]
                   /\ adsClients' = addCon(adsClients, conID, c)
                   /\ receiver' = [receiver EXCEPT ![c].pc = "initializeProxy"]
                   /\ errorChan' = errorChan
          ELSE /\ errorChan' = [errorChan EXCEPT
                                   ![c] = chanSend(@, "metadataError")]
               /\ receiver' = [receiver EXCEPT ![c].msg = <<>>,
                                               ![c].pc = returnPc(receiver[c])]
               /\ UNCHANGED <<connectionNumber, proxy, adsClients>>
    /\ UNCHANGED <<pushChannel, engine, initialized, reqChan, mainTask,
                 stopCall, received, streamVars, mergeVars, generatorVars>>

\* receive: initializeProxy, the deferred close(con.initialized) of
\* initConnection, and `defer s.closeConnection(con)`; the close of a closed
\* channel panics
InitializeProxy(c) ==
    /\ receiver[c].pc = "initializeProxy"
    /\ proxy' = [proxy EXCEPT
                    ![c].proxy = <<[WatchedResources |-> << <<>> >>]>>]
    /\ initialized' = [initialized EXCEPT ![c] = TRUE]
    /\ receiver' = IF initialized[c]
                   THEN [receiver EXCEPT ![c].pc = "panic"]
                   ELSE [receiver EXCEPT ![c].deferClose = TRUE,
                                         ![c].pc = "forward"]
    /\ UNCHANGED <<adsClients, connectionNumber, pushChannel, engine,
                 reqChan, errorChan, mainTask, stopCall, received,
                 streamVars, mergeVars, generatorVars>>

\* receive: select, case con.reqChan <- req
Forward(c) ==
    /\ receiver[c].pc = "forward"
    /\ Len(reqChan[c].buf) < 1
    /\ reqChan' = [reqChan EXCEPT ![c] = chanSend(@, receiver[c].msg[1].req)]
    /\ receiver' = [receiver EXCEPT ![c].msg = <<>>, ![c].probes = 0,
                                    ![c].pc = "recv"]
    /\ UNCHANGED <<adsClients, connectionNumber, pushChannel, engine,
                 initialized, errorChan, mainTask, proxy, stopCall, received,
                 streamVars, mergeVars, generatorVars>>

\* receive: select, case <-con.stream.Context().Done()
ForwardDone(c) ==
    /\ receiver[c].pc = "forward"
    /\ receiver' = [receiver EXCEPT ![c].msg = <<>>,
                                    ![c].pc = returnPc(receiver[c])]
    /\ UNCHANGED <<adsClients, connectionNumber, pushChannel, engine,
                 initialized, reqChan, errorChan, mainTask, proxy, stopCall,
                 received, streamVars, mergeVars, generatorVars>>

\* a receive task whose deferred closeConnection removes nothing
ReceiveCloseConnection_KeepRegistered(c) ==
    /\ receiver[c].pc = "closeConnection"
    /\ receiver' = [receiver EXCEPT ![c].pc = "closeChans"]
    /\ UNCHANGED <<adsClients, connectionNumber, pushChannel, engine,
                 initialized, reqChan, errorChan, mainTask, proxy, stopCall,
                 received, streamVars, mergeVars, generatorVars>>

\* receive returns: the deferred closeConnection
ReceiveCloseConnection(c) ==
    /\ receiver[c].pc = "closeConnection"
    /\ adsClients' = closeConnection(adsClients, proxy[c].ConID)
    /\ receiver' = [receiver EXCEPT ![c].pc = "closeChans"]
    /\ UNCHANGED <<connectionNumber, pushChannel, engine, initialized,
                 reqChan, errorChan, mainTask, proxy, stopCall, received,
                 streamVars, mergeVars, generatorVars>>

\* a deferred function that leaves the barrier as it is
ReceiveCloseChans_LeaveBarrier(c) ==
    /\ receiver[c].pc = "closeChans"
    /\ errorChan' = [errorChan EXCEPT ![c].closed = TRUE]
    /\ reqChan' = [reqChan EXCEPT ![c].closed = TRUE]
    /\ receiver' = [receiver EXCEPT ![c].probes = 0, ![c].pc = "done"]
    /\ UNCHANGED <<adsClients, connectionNumber, pushChannel, engine,
                 initialized, mainTask, proxy, stopCall, received,
                 streamVars, mergeVars, generatorVars>>

\* a deferred function that closes the barrier without looking
ReceiveCloseChans_CloseBarrierAgain(c) ==
    /\ receiver[c].pc = "closeChans"
    /\ errorChan' = [errorChan EXCEPT ![c].closed = TRUE]
    /\ reqChan' = [reqChan EXCEPT ![c].closed = TRUE]
    /\ initialized' = [initialized EXCEPT ![c] = TRUE]
    /\ receiver' = [receiver EXCEPT
                       ![c].probes = 0,
                       ![c].pc = IF \/ errorChan[c].closed
                                    \/ reqChan[c].closed
                                    \/ initialized[c]
                                 THEN "panic" ELSE "done"]
    /\ UNCHANGED <<adsClients, connectionNumber, pushChannel, engine,
                 mainTask, proxy, stopCall, received, streamVars, mergeVars,
                 generatorVars>>

\* receive returns: the first deferred function closes errorChan, reqChan
\* and, if it is still open, initialized; the close of a closed channel
\* panics
ReceiveCloseChans(c) ==
    /\ receiver[c].pc = "closeChans"
    /\ errorChan' = [errorChan EXCEPT ![c].closed = TRUE]
    /\ reqChan' = [reqChan EXCEPT ![c].closed = TRUE]
    /\ initialized' = [initialized EXCEPT ![c] = TRUE]
    /\ receiver' = [receiver EXCEPT
                       ![c].probes = 0,
                       ![c].pc = IF errorChan[c].closed \/ reqChan[c].closed
                                 THEN "panic" ELSE "done"]
    /\ UNCHANGED <<adsClients, connectionNumber, pushChannel, engine,
                 mainTask, proxy, stopCall, received, streamVars, mergeVars,
                 generatorVars>>

\* what the generator and the transport do for a response of a stream of
\* the server: resources sent, resources with a failed send, or an error of
\* the generator
ServerOutcomes == Outcomes \ {<<"nil", "ok">>}

\* con.proxy.WatchedResources of an initialized connection
conWatched(c) == proxy[c].proxy[1].WatchedResources[1]

\* the proxy of connection c with table w
withWatched(c, w) ==
    [proxy EXCEPT ![c].proxy = <<[WatchedResources |-> <<w>>]>>]

\* Stream returns err from the select case `exit`
streamReturn(m, err, exit) == [m EXCEPT !.pc = "returned", !.ret = err,
                                        !.exit = exit]

\* a Stream that does not wait for initialized
MainInitialized_NoWait(c) ==
    /\ mainTask[c].pc = "waitInit"
    /\ mainTask' = [mainTask EXCEPT ![c].pc = "select"]
    /\ UNCHANGED <<adsClients, connectionNumber, pushChannel, engine,
                 receiver, initialized, reqChan, errorChan, proxy, stopCall,
                 received, streamVars, mergeVars, generatorVars>>

\* Stream: <-con.initialized
MainInitialized(c) ==
    /\ mainTask[c].pc = "waitInit"
    /\ initialized[c]
    /\ mainTask' = [mainTask EXCEPT ![c].pc = "select"]
    /\ UNCHANGED <<adsClients, connectionNumber, pushChannel, engine,
                 receiver, initialized, reqChan, errorChan, proxy, stopCall,
                 received, streamVars, mergeVars, generatorVars>>

\* Stream: select, case req, ok := <-con.reqChan with ok: processRequest
MainRequest(c) ==
    /\ mainTask[c].pc = "select"
    /\ reqChan[c].buf # <<>>
    /\ LET rcv == chanRecv(reqChan[c].buf)
           sr  == shouldRespond(conWatched(c), rcv.val)
       IN  /\ reqChan' = [reqChan EXCEPT ![c].buf = rcv.rest]
           /\ \E o \in IF sr.respond THEN ServerOutcomes ELSE {<<"nil", "ok">>} :
                 LET r == processRequest(conWatched(c), envPushVersion,
                                         rcv.val, o[1], o[2])
                 IN  /\ proxy' = withWatched(c, r.watched)
                     /\ mainTask' =
                           [mainTask EXCEPT
                               ![c] = IF r.err # "nil"
                                      THEN streamReturn(
                                               [@ EXCEPT !.handled = @ + 1],
                                               r.err, "request")
                                      ELSE [@ EXCEPT !.handled = @ + 1]]
    /\ UNCHANGED <<adsClients, connectionNumber, pushChannel, engine,
                 receiver, initialized, errorChan, stopCall, received,
                 streamVars, mergeVars, generatorVars>>

\* Stream: select, case req, ok := <-con.reqChan with the channel closed and
\* drained: return <-con.errorChan
MainClosed(c) ==
    /\ mainTask[c].pc = "select"
    /\ reqChan[c].buf = <<>>
    /\ reqChan[c].closed
    /\ \/ /\ errorChan[c].buf # <<>>
          /\ LET rcv == chanRecv(errorChan[c].buf)
             IN  /\ errorChan' = [errorChan EXCEPT ![c].buf = rcv.rest]
                 /\ mainTask' = [mainTask EXCEPT
                                    ![c] = streamReturn(@, rcv.val, "closed")]
       \/ /\ errorChan[c].buf = <<>>
          /\ errorChan[c].closed
          /\ errorChan' = errorChan
          /\ mainTask' = [mainTask EXCEPT
                             ![c] = streamReturn(@, "nil", "closed")]
    /\ UNCHANGED <<adsClients, connectionNumber, pushChannel, engine,
                 receiver, initialized, reqChan, proxy, stopCall, received,
                 streamVars, mergeVars, generatorVars>>

\* Connection.Stop: the caller blocks on conn.stop <- struct{}{}; it found the
\* connection in the registry
Stop(c) ==
    /\ \E id \in DOMAIN adsClients : adsClients[id] = c
    /\ Cardinality({d \in Conns : stopCall[d] \/ mainTask[d].exit = "stop"})
          < MaxStops
    /\ stopCall' = [stopCall EXCEPT ![c] = TRUE]
    /\ UNCHANGED <<adsClients, connectionNumber, pushChannel, engine,
                 receiver, initialized, reqChan, errorChan, mainTask, proxy,
                 received, streamVars, mergeVars, generatorVars>>

\* Stream: select, case <-con.stop
MainStop(c) ==
    /\ mainTask[c].pc = "select"
    /\ stopCall[c]
    /\ stopCall' = [stopCall EXCEPT ![c] = FALSE]
    /\ mainTask' = [mainTask EXCEPT ![c] = streamReturn(@, "nil", "stop")]
    /\ UNCHANGED <<adsClients, connectionNumber, pushChannel, engine,
                 receiver, initialized, reqChan, errorChan, proxy, received,
                 streamVars, mergeVars, generatorVars>>

\* a ConfigUpdate that gives up when the channel is full
ConfigUpdate_DropWhenFull(limit) ==
    /\ engine.enqueued < limit
    /\ pushChannel' = IF Len(pushChannel) < PushChannelCap
                      THEN Append(pushChannel,
                                  [id |-> engine.enqueued + 1, Push |-> <<>>])
                      ELSE pushChannel
    /\ engine' = [engine EXCEPT !.enqueued = @ + 1]
    /\ UNCHANGED <<adsClients, connectionNumber, receiver, initialized,
                 reqChan, errorChan, mainTask, proxy, stopCall, received,
                 streamVars, mergeVars, generatorVars>>

\* ConfigUpdate: s.pushChannel <- req, blocking while the channel is full;
\* limit bounds the calls of one run
ConfigUpdate(limit) ==
    /\ engine.enqueued < limit
    /\ Len(pushChannel) < PushChannelCap
    /\ pushChannel' = Append(pushChannel,
                             [id |-> engine.enqueued + 1, Push |-> <<>>])
    /\ engine' = [engine EXCEPT !.enqueued = @ + 1]
    /\ UNCHANGED <<adsClients, connectionNumber, receiver, initialized,
                 reqChan, errorChan, mainTask, proxy, stopCall, received,
                 streamVars, mergeVars, generatorVars>>

\* Run: case pushRequest := <-s.pushChannel, up to the snapshot AllClients()
\* of startPush: clients is the slice startPush ranges over, targets the part
\* of it the loop has still to serve
Run ==
    /\ engine.pc = "idle"
    /\ pushChannel # <<>>
    /\ LET rcv == chanRecv(pushChannel)
           num == engine.versionNum + 1
       IN  /\ pushChannel' = rcv.rest
           /\ \E clients \in AllClients(adsClients) :
                 engine' = [engine EXCEPT
                               !.versionNum = num,
                               !.req = <<[rcv.val EXCEPT
                                             !.Push = <<PushVersion(num)>>]>>,
                               !.clients = clients,
                               !.targets = clients,
                               !.pc = IF clients = <<>> THEN "idle"
                                      ELSE "fanout"]
    /\ UNCHANGED <<adsClients, connectionNumber, receiver, initialized,
                 reqChan, errorChan, mainTask, proxy, stopCall, received,
                 streamVars, mergeVars, generatorVars>>

\* startPush: c.pushChannel <- req meets Stream: select, case pushReq :=
\* <-con.pushChannel, which runs pushConnection
Deliver(c) ==
    /\ engine.pc = "fanout"
    /\ Head(engine.targets) = c
    /\ mainTask[c].pc = "select"
    /\ engine' = [engine EXCEPT
                     !.targets = Tail(@),
                     !.pc = IF Tail(engine.targets) = <<>> THEN "idle"
                            ELSE "fanout"]
    /\ LET pushReq == engine.req[1]
           w       == conWatched(c)
       IN  \E needsPush \in BOOLEAN, order \in orderWatchedResources(w),
              o \in [DOMAIN w -> ServerOutcomes] :
              LET r == pushConnection(w, pushReq.Push[1], needsPush, order,
                                      [t \in DOMAIN w |-> o[t][1]],
                                      [t \in DOMAIN w |-> o[t][2]])
                  types == {r.sent[i].TypeUrl : i \in DOMAIN r.sent}
              IN  /\ proxy' = withWatched(c, r.watched)
                  /\ received' =
                        [received EXCEPT
                            ![c] = Append(@,
                                [id |-> pushReq.id,
                                 version |-> pushReq.Push[1],
                                 sent |-> r.sent,
                                 booked |->
                                    [t \in types |->
                                        <<r.watched[t].NonceSent,
                                          r.watched[t].VersionSent>>]])]
                  /\ mainTask' =
                        [mainTask EXCEPT
                            ![c] = IF r.err # "nil"
                                   THEN streamReturn(@, r.err, "push")
                                   ELSE @]
    /\ UNCHANGED <<adsClients, connectionNumber, pushChannel, receiver,
                 initialized, reqChan, errorChan, stopCall, streamVars,
                 mergeVars, generatorVars>>

\* StreamAggregatedResources: Stream up to <-con.initialized, with
\* newConnection and `go s.receive(con)`
Stream(c) ==
    /\ mainTask[c].pc = "rpc"
    /\ mainTask' = [mainTask EXCEPT ![c].pc = "waitInit"]
    /\ receiver' = [receiver EXCEPT ![c].pc = "recv"]
    /\ UNCHANGED <<adsClients, connectionNumber, pushChannel, engine,
                 initialized, reqChan, errorChan, proxy, stopCall, received,
                 streamVars, mergeVars, generatorVars>>

\* DeltaAggregatedResources
DeltaAggregatedResources(c) ==
    /\ mainTask[c].pc = "rpc"
    /\ mainTask' = [mainTask EXCEPT
                       ![c] = streamReturn(@, DeltaError, "delta")]
    /\ UNCHANGED <<adsClients, connectionNumber, pushChannel, engine,
                 receiver, initialized, reqChan, errorChan, proxy, stopCall,
                 received, streamVars, mergeVars, generatorVars>>

\* NewGenericXdsServer with Env.PushContext, and the streams opened
ServerSpecInit ==
    /\ ServerInit
    /\ StreamInit
    /\ envPushVersion # ""
    /\ merged = <<>>
    /\ dispatch = <<>>

ServerNext ==
    \/ \E c \in Conns : RecvError(c)
    \/ \E c \in Conns : RecvProbe(c)
    \/ \E c \in Conns : RecvRequest(c)
    \/ \E c \in Conns : InitConnection(c)
    \/ \E c \in Conns : InitializeProxy(c)
    \/ \E c \in Conns : Forward(c)
    \/ \E c \in Conns : ForwardDone(c)
    \/ \E c \in Conns : ReceiveCloseConnection(c)
    \/ \E c \in Conns : ReceiveCloseChans(c)
    \/ \E c \in Conns : MainInitialized(c)
    \/ \E c \in Conns : MainRequest(c)
    \/ \E c \in Conns : MainClosed(c)
    \/ \E c \in Conns : Stop(c)
    \/ \E c \in Conns : MainStop(c)
    \/ \E c \in Conns : Deliver(c)
    \/ \E c \in Conns : Stream(c)
    \/ \E c \in Conns : DeltaAggregatedResources(c)
    \/ ConfigUpdate(MaxServerPushes)
    \/ Run

\* The server with everything its clients and callers can do, and
\* MaxServerPushes calls of ConfigUpdate.
ServerSpec == ServerSpecInit /\ [][ServerNext]_vars

\* The server under MaxConfigUpdates calls of ConfigUpdate; its clients send
\* no health probes, and nobody calls Stop() or the Delta-xDS entrypoint.
FanoutNext ==
    \/ \E c \in Conns : RecvError(c)
    \/ \E c \in Conns : RecvRequest(c)
    \/ \E c \in Conns : InitConnection(c)
    \/ \E c \in Conns : InitializeProxy(c)
    \/ \E c \in Conns : Forward(c)
    \/ \E c \in Conns : ForwardDone(c)
    \/ \E c \in Conns : ReceiveCloseConnection(c)
    \/ \E c \in Conns : ReceiveCloseChans(c)
    \/ \E c \in Conns : MainInitialized(c)
    \/ \E c \in Conns : MainRequest(c)
    \/ \E c \in Conns : MainClosed(c)
    \/ \E c \in Conns : Deliver(c)
    \/ \E c \in Conns : Stream(c)
    \/ ConfigUpdate(MaxConfigUpdates)
    \/ Run

FanoutSpec == ServerSpecInit /\ [][FanoutNext]_vars

\* number of streams in a run of LiveSpec
MaxLiveConns == 1

LiveConns == 1..MaxLiveConns

\* the steps the receive task of stream c takes by itself: everything but the
\* results of Recv(), which are up to the peer
ReceiveStep(c) ==
    \/ InitConnection(c)
    \/ InitializeProxy(c)
    \/ Forward(c)
    \/ ForwardDone(c)
    \/ ReceiveCloseConnection(c)
    \/ ReceiveCloseChans(c)

\* the steps the main task of stream c takes by itself: the barrier and the
\* cases of its select that need no partner
MainTaskStep(c) ==
    \/ MainInitialized(c)
    \/ MainRequest(c)
    \/ MainClosed(c)
    \/ MainStop(c)

\* the steps of the push engine: Run's receive and the rendezvous of
\* startPush with a main task
EngineStep ==
    \/ Run
    \/ \E c \in LiveConns : Deliver(c)

LiveNext ==
    \/ \E c \in LiveConns : RecvError(c)
    \/ \E c \in LiveConns : RecvProbe(c)
    \/ \E c \in LiveConns : RecvRequest(c)
    \/ \E c \in LiveConns : ReceiveStep(c)
    \/ \E c \in LiveConns : MainTaskStep(c)
    \/ \E c \in LiveConns : Stop(c)
    \/ \E c \in LiveConns : Stream(c)
    \/ \E c \in LiveConns : DeltaAggregatedResources(c)
    \/ ConfigUpdate(MaxConfigUpdates)
    \/ EngineStep

\* The server under a scheduler that runs every task that can take a step.
\* What the peer and the callers of the server do (the results of Recv(),
\* Stop, ConfigUpdate, new RPCs) is under no obligation.
LiveSpec ==
    /\ ServerSpecInit
    /\ [][LiveNext]_vars
    /\ \A c \in LiveConns : WF_vars(ReceiveStep(c)) /\ WF_vars(MainTaskStep(c))
    /\ WF_vars(EngineStep)

\* The server under MaxQueuedUpdates calls of ConfigUpdate, enough to fill
\* the global push channel, with MaxEngineConns streams; no health probes,
\* no Stop() and no Delta-xDS call.
EngineConns == 1..MaxEngineConns

EngineNext ==
    \/ \E c \in EngineConns : RecvError(c)
    \/ \E c \in EngineConns : RecvRequest(c)
    \/ \E c \in EngineConns : InitConnection(c)
    \/ \E c \in EngineConns : InitializeProxy(c)
    \/ \E c \in EngineConns : Forward(c)
    \/ \E c \in EngineConns : ForwardDone(c)
    \/ \E c \in EngineConns : ReceiveCloseConnection(c)
    \/ \E c \in EngineConns : ReceiveCloseChans(c)
    \/ \E c \in EngineConns : MainInitialized(c)
    \/ \E c \in EngineConns : MainRequest(c)
    \/ \E c \in EngineConns : MainClosed(c)
    \/ \E c \in EngineConns : Deliver(c)
    \/ \E c \in EngineConns : Stream(c)
    \/ ConfigUpdate(MaxQueuedUpdates)
    \/ Run

EngineSpec == ServerSpecInit /\ [][EngineNext]_vars

(***************************************************************************)
(* model.PushRequest and its merge.  A pointer or a map is <<>> (nil) or   *)
(* <<v>>; a ReasonStats map is a function from reasons to counts, a        *)
(* ConfigsUpdated set a set of keys.  Merge does not read or write Delta.  *)
(***************************************************************************)
\* number of distinct Start times
MaxStart == 2
\* the largest count of a reason in a request `merged` holds
MaxReasonCount == 2

TriggerReasons == {"proxyrequest"}
ConfigKeys == {"k1", "k2"}
PushContexts == {"p1", "p2"}
Starts == 1..MaxStart

\* ReasonStats with every count equal to n
ReasonsOf(keys, n) == [k \in keys |-> n]

\* a nil pointer, map or set, and the non-nil ones
Nil == <<>>
Some(S) == {<<v>> : v \in S}

\* the requests a caller hands to Merge: any Full, Start and Push, a
\* ConfigsUpdated that is nil, empty or has one key, and a Reason that is nil,
\* empty or counts each of its reasons once
PushRequests ==
    [Full : BOOLEAN,
     ConfigsUpdated : {Nil} \cup Some({{}} \cup {{k} : k \in ConfigKeys}),
     Push : {Nil} \cup Some(PushContexts),
     Start : Starts,
     Reason : {Nil} \cup Some({ReasonsOf(keys, 1) :
                                  keys \in SUBSET TriggerReasons})]

\* *PushRequest
PushRequestPtrs == {Nil} \cup Some(PushRequests)

\* len() of a map or set behind a possibly nil reference
len(m) == IF m = Nil THEN 0 ELSE Cardinality(DOMAIN m[1])
lenSet(m) == IF m = Nil THEN 0 ELSE Cardinality(m[1])

\* ReasonStats.Merge: adds the counts of other to r, reason by reason
ReasonStatsMerge(r, other) ==
    [k \in DOMAIN r \cup DOMAIN other |->
        (IF k \in DOMAIN r THEN r[k] ELSE 0)
            + (IF k \in DOMAIN other THEN other[k] ELSE 0)]

\* Merge that keeps its ConfigsUpdated when the other one is empty
Merge_KeepOnEmptyOther(pr, other) ==
    IF pr = Nil THEN other
    ELSE IF other = Nil THEN pr
    ELSE LET a == pr[1]
             b == other[1]
         IN  <<[Full |-> a.Full \/ b.Full,
                ConfigsUpdated |->
                    IF lenSet(a.ConfigsUpdated) = 0 THEN Nil
                    ELSE <<a.ConfigsUpdated[1] \cup
                              (IF b.ConfigsUpdated = Nil THEN {}
                               ELSE b.ConfigsUpdated[1])>>,
                Push |-> IF b.Push # Nil THEN b.Push ELSE a.Push,
                Start |-> a.Start,
                Reason |->
                    IF len(b.Reason) > 0
                    THEN <<ReasonStatsMerge(
                               IF a.Reason = Nil THEN ReasonsOf({}, 0)
                               ELSE a.Reason[1],
                               b.Reason[1])>>
                    ELSE a.Reason]>>

\* Merge that keeps the Push of its receiver when it has one
Merge_PushOfReceiver(pr, other) ==
    IF pr = Nil THEN other
    ELSE IF other = Nil THEN pr
    ELSE LET a == pr[1]
             b == other[1]
         IN  <<[Full |-> a.Full \/ b.Full,
                ConfigsUpdated |->
                    IF lenSet(a.ConfigsUpdated) = 0
                          \/ lenSet(b.ConfigsUpdated) = 0
                    THEN Nil
                    ELSE <<a.ConfigsUpdated[1] \cup b.ConfigsUpdated[1]>>,
                Push |-> IF a.Push # Nil THEN a.Push ELSE b.Push,
                Start |-> a.Start,
                Reason |->
                    IF len(b.Reason) > 0
                    THEN <<ReasonStatsMerge(
                               IF a.Reason = Nil THEN ReasonsOf({}, 0)
                               ELSE a.Reason[1],
                               b.Reason[1])>>
                    ELSE a.Reason]>>

\* PushRequest.Merge: the request pr points to after pr.Merge(other), or
\* other when pr is nil
Merge(pr, other) ==
    IF pr = Nil THEN other
    ELSE IF other = Nil THEN pr
    ELSE LET a == pr[1]
             b == other[1]
         IN  <<[Full |-> a.Full \/ b.Full,
                ConfigsUpdated |->
                    IF lenSet(a.ConfigsUpdated) = 0
                          \/ lenSet(b.ConfigsUpdated) = 0
                    THEN Nil
                    ELSE <<a.ConfigsUpdated[1] \cup b.ConfigsUpdated[1]>>,
                Push |-> IF b.Push # Nil THEN b.Push ELSE a.Push,
                Start |-> a.Start,
                Reason |->
                    IF len(b.Reason) > 0
                    THEN <<ReasonStatsMerge(
                               IF a.Reason = Nil THEN ReasonsOf({}, 0)
                               ELSE a.Reason[1],
                               b.Reason[1])>>
                    ELSE a.Reason]>>

\* PushRequest.CopyMerge: the request it returns; it writes to the new
\* request and its new maps only
CopyMerge(pr, other) ==
    IF pr = Nil THEN other
    ELSE IF other = Nil THEN pr
    ELSE LET a == pr[1]
             b == other[1]
             reason ==
                 IF len(a.Reason) + len(b.Reason) > 0
                 THEN <<ReasonStatsMerge(
                            ReasonStatsMerge(
                                ReasonsOf({}, 0),
                                IF a.Reason = Nil THEN ReasonsOf({}, 0)
                                ELSE a.Reason[1]),
                            IF b.Reason = Nil THEN ReasonsOf({}, 0)
                            ELSE b.Reason[1])>>
                 ELSE Nil
         IN  <<[Full |-> a.Full \/ b.Full,
                ConfigsUpdated |->
                    IF lenSet(a.ConfigsUpdated) > 0
                          /\ lenSet(b.ConfigsUpdated) > 0
                    THEN <<a.ConfigsUpdated[1] \cup b.ConfigsUpdated[1]>>
                    ELSE Nil,
                Push |-> b.Push,
                Start |-> a.Start,
                Reason |-> reason]>>

\* the counts of the reasons of request pr are within the bound
ReasonsBounded(pr) ==
    pr # Nil /\ pr[1].Reason # Nil =>
        \A k \in DOMAIN pr[1].Reason[1] : pr[1].Reason[1][k] <= MaxReasonCount

\* a caller holds a request (or nil)
MergeInit ==
    /\ merged \in PushRequestPtrs
    /\ dispatch = <<>>
    /\ ServerInit
    /\ StreamInit
    /\ envPushVersion # ""

\* a = a.Merge(b)
MergeStep ==
    /\ \E other \in PushRequestPtrs :
          /\ merged' = Merge(merged, other)
          /\ ReasonsBounded(merged')
    /\ UNCHANGED <<streamVars, serverVars, generatorVars>>

\* a = a.CopyMerge(b)
CopyMergeStep ==
    /\ \E other \in PushRequestPtrs :
          /\ merged' = CopyMerge(merged, other)
          /\ ReasonsBounded(merged')
    /\ UNCHANGED <<streamVars, serverVars, generatorVars>>

MergeNext ==
    \/ MergeStep
    \/ CopyMergeStep

MergeSpec == MergeInit /\ [][MergeNext]_vars

(***************************************************************************)
(* Generator dispatch: s.Generators as a map from keys (type-URLs and      *)
(* generator names) to generators, the generator a proxy's node metadata   *)
(* selects, and the generator pushXds calls.                               *)
(***************************************************************************)
\* number of responses built in one run of GeneratorSpec
MaxBuilt == 2

\* proxy.Metadata.Generator: "" when the node metadata names none
GeneratorNames == {"", "grpc"}
\* the registered model.XdsResourceGenerator values
GeneratorIds == {"g1", "g2"}
\* the key of a generator name in s.Generators (a type-URL is the tuple of
\* its segments, a name has one segment)
nameKey(name) == <<name>>
GeneratorKeys == TypeUrls \cup {nameKey(n) : n \in GeneratorNames \ {""}}
\* the maps the owner of the server may have registered
GeneratorMaps == UNION {[K -> GeneratorIds] : K \in SUBSET GeneratorKeys}

\* m[k] of a Go map: nil (<<>>) when k is not a key
lookup(m, k) == IF k \in DOMAIN m THEN <<m[k]>> ELSE <<>>

\* initializeProxy: the generator fields of the proxy
initializeProxy(gens, p) ==
    [p EXCEPT !.XdsResourceGenerator =
                  IF p.Generator # "" THEN lookup(gens, nameKey(p.Generator))
                  ELSE @,
              !.initialized = TRUE]

\* pushXds: gen, _ := s.Generators[w.TypeUrl]; the proxy of the connection
\* is at hand and is not consulted
pushXdsGenerator(gens, p, typeUrl) == lookup(gens, typeUrl)

GeneratorInit ==
    /\ dispatch \in [Generators : GeneratorMaps,
                     proxy : [Generator : GeneratorNames,
                              XdsResourceGenerator : {<<>>},
                              initialized : {FALSE}],
                     built : {<<>>}]
    /\ ServerInit
    /\ StreamInit
    /\ merged = <<>>

\* initConnection: initializeProxy for the proxy parsed from the node
BindGenerator ==
    /\ ~dispatch.proxy.initialized
    /\ dispatch' = [dispatch EXCEPT
                        !.proxy = initializeProxy(dispatch.Generators, @)]
    /\ UNCHANGED <<streamVars, serverVars, mergeVars>>

\* pushXds for a watched type-URL whose generator gives resources: the
\* response is built by the generator pushXds has looked up
BuildResponse ==
    /\ dispatch.proxy.initialized
    /\ Len(dispatch.built) < MaxBuilt
    /\ \E typeUrl \in TypeUrls :
          LET gen == pushXdsGenerator(dispatch.Generators, dispatch.proxy,
                                      typeUrl)
          IN  /\ gen # <<>>
              /\ dispatch' = [dispatch EXCEPT
                                  !.built = Append(@, [TypeUrl |-> typeUrl,
                                                       by |-> gen[1]])]
    /\ UNCHANGED <<streamVars, serverVars, mergeVars>>

GeneratorNext ==
    \/ BindGenerator
    \/ BuildResponse

GeneratorSpec == GeneratorInit /\ [][GeneratorNext]_vars

(***************************************************************************)
(* Properties.                                                             *)
(***************************************************************************)
\* a and b hold the same strings with the same multiplicities
SameMultiset(a, b) ==
    \A x \in ResourceNameSet :
        Cardinality({i \in DOMAIN a : a[i] = x}) =
        Cardinality({i \in DOMAIN b : b[i] = x})

\* the request has empty ResourceNames and the one non-wildcard type
IsUnsubscribe(r) == r.ResourceNames = <<>> /\ r.TypeUrl = SecretType

\* no handling of r, whatever the generator and the transport do, writes a
\* response to the stream
NoResponse(r) ==
    \A o \in Outcomes :
        processRequest(watched, envPushVersion, r, o[1], o[2]).sent = <<>>

\* the last step of the main task was a request, with this result of
\* shouldRespond
RequestStep(respond) == last.op = "request" /\ last.respond = respond

\* C1 (INIT): in every reachable state, a request without ErrorDetail that is
\* not an unsubscribe and has an empty ResponseNonce makes shouldRespond
\* return true and leaves, for its type-URL, the record built from the request
\* (TypeUrl, ResourceNames, LastRequest; nothing of an earlier record),
\* whether or not the type was watched.
C1_InitRespondsAndCreates ==
    \A r \in Requests :
        (~r.ErrorDetail /\ ~IsUnsubscribe(r) /\ r.ResponseNonce = "") =>
            LET sr == shouldRespond(watched, r)
            IN  /\ sr.respond
                /\ r.TypeUrl \in DOMAIN sr.watched
                /\ sr.watched[r.TypeUrl] =
                      [ZeroWatchedResource(r.TypeUrl) EXCEPT
                          !.ResourceNames = r.ResourceNames,
                          !.LastRequest = <<r>>]
                /\ \A t \in DOMAIN watched \ {r.TypeUrl} :
                      t \in DOMAIN sr.watched /\ sr.watched[t] = watched[t]

\* an INIT was processed for a type that had a WatchedResource with a nonce
\* sent and acknowledged, and the record is the fresh one
C1_Witness ==
    /\ RequestStep(TRUE)
    /\ last.before = {ClusterType}
    /\ last.err = "nil"
    /\ ClusterType \in DOMAIN watched
    /\ watched[ClusterType].LastRequest # <<>>
    /\ watched[ClusterType].LastRequest[1].ResponseNonce = ""
    /\ watched[ClusterType].ResourceNames = <<"a", "b">>
    /\ watched[ClusterType].NonceAcked = ""
    /\ versionNum = 1

\* C2 (RECONNECT): in every reachable state, a request without ErrorDetail
\* that is not an unsubscribe, has a non-empty ResponseNonce and names a
\* type-URL that has no WatchedResource makes shouldRespond return true and
\* creates the WatchedResource of that type with the request's ResourceNames.
C2_ReconnectRespondsAndCreates ==
    \A r \in Requests :
        (/\ ~r.ErrorDetail
         /\ ~IsUnsubscribe(r)
         /\ r.ResponseNonce # ""
         /\ r.TypeUrl \notin DOMAIN watched) =>
            LET sr == shouldRespond(watched, r)
            IN  /\ sr.respond
                /\ r.TypeUrl \in DOMAIN sr.watched
                /\ sr.watched[r.TypeUrl].TypeUrl = r.TypeUrl
                /\ sr.watched[r.TypeUrl].ResourceNames = r.ResourceNames
                /\ sr.watched[r.TypeUrl].LastRequest = <<r>>

\* a request with a nonce was processed for a type that was not watched, and
\* the response it triggered was written
C2_Witness ==
    /\ RequestStep(TRUE)
    /\ last.before = {}
    /\ last.sent # <<>>
    /\ SecretType \in DOMAIN watched
    /\ watched[SecretType].LastRequest[1].ResponseNonce # ""
    /\ watched[SecretType].ResourceNames = <<"b", "a">>

\* C3 (NACK): in every reachable state, a request with ErrorDetail for a
\* watched type-URL makes shouldRespond return false, writes no response, and
\* changes nothing in the table but NonceNacked of that type, which becomes
\* the request's ResponseNonce.
C3_NackRecordsNonceOnly ==
    \A r \in Requests :
        (r.ErrorDetail /\ r.TypeUrl \in DOMAIN watched) =>
            LET sr == shouldRespond(watched, r)
            IN  /\ ~sr.respond
                /\ NoResponse(r)
                /\ sr.watched =
                      [watched EXCEPT ![r.TypeUrl].NonceNacked = r.ResponseNonce]

\* a NACK of the nonce sent was processed: NonceNacked is that nonce, and the
\* names and the acknowledged nonce are not those of the NACK
C3_Witness ==
    /\ RequestStep(FALSE)
    /\ last.sent = <<>>
    /\ ClusterType \in DOMAIN watched
    /\ watched[ClusterType].NonceNacked # ""
    /\ watched[ClusterType].NonceNacked = watched[ClusterType].NonceSent
    /\ watched[ClusterType].NonceAcked # watched[ClusterType].NonceSent
    /\ watched[ClusterType].ResourceNames = <<"a">>

\* C4 (UNSUBSCRIBE): in every reachable state, a request without ErrorDetail
\* and with empty ResourceNames deletes the WatchedResource of its type-URL
\* and gets no response, whatever its nonce, if its type-URL is the secret
\* type; for any other (wildcard) type-URL the WatchedResource of the type is
\* there afterwards.
C4_UnsubscribeIffNonWildcard ==
    \A r \in Requests :
        (~r.ErrorDetail /\ r.ResourceNames = <<>>) =>
            LET sr == shouldRespond(watched, r)
            IN  IF r.TypeUrl = SecretType
                THEN /\ ~sr.respond
                     /\ NoResponse(r)
                     /\ sr.watched = Delete(watched, r.TypeUrl)
                     /\ r.TypeUrl \notin DOMAIN sr.watched
                ELSE r.TypeUrl \in DOMAIN sr.watched

\* the secret type was watched and a request deleted its WatchedResource
C4_Witness ==
    /\ RequestStep(FALSE)
    /\ last.before = {SecretType}
    /\ DOMAIN watched = {}
    /\ last.sent = <<>>

\* C5 (STALE): in every reachable state, a request for a watched type-URL whose
\* non-empty ResponseNonce differs from NonceSent gets no response; when it
\* reaches the nonce check (no ErrorDetail, not an unsubscribe) shouldRespond
\* clears NonceNacked, sets LastRequest to the request and changes nothing
\* else.
C5_StaleNonceNeverResponds ==
    \A r \in Requests :
        (/\ r.TypeUrl \in DOMAIN watched
         /\ r.ResponseNonce # ""
         /\ r.ResponseNonce # watched[r.TypeUrl].NonceSent) =>
            LET sr == shouldRespond(watched, r)
            IN  /\ ~sr.respond
                /\ NoResponse(r)
                /\ (~r.ErrorDetail /\ ~IsUnsubscribe(r)) =>
                      sr.watched = [watched EXCEPT
                                       ![r.TypeUrl].NonceNacked = "",
                                       ![r.TypeUrl].LastRequest = <<r>>]

\* after a push had replaced the nonce, a request answering the older nonce
\* was processed
C5_Witness ==
    /\ RequestStep(FALSE)
    /\ last.sent = <<>>
    /\ ClusterType \in DOMAIN watched
    /\ watched[ClusterType].NonceSent = PushVersion(1)
    /\ watched[ClusterType].LastRequest[1].ResponseNonce = envPushVersion
    /\ envPushVersion # ""
    /\ ~watched[ClusterType].LastRequest[1].ErrorDetail
    /\ watched[ClusterType].NonceNacked = ""

\* C6 (ACK): in every reachable state, a request (no ErrorDetail, not an
\* unsubscribe) whose non-empty ResponseNonce is NonceSent and whose
\* ResourceNames are the stored ones as a multiset gets no response and leaves
\* NonceAcked = NonceSent, VersionAcked = the request's version and
\* NonceNacked empty; the same request once more gets no response and changes
\* no field but LastRequest.
C6_AckIsIdempotent ==
    \A r \in Requests :
        (/\ ~r.ErrorDetail
         /\ ~IsUnsubscribe(r)
         /\ r.TypeUrl \in DOMAIN watched
         /\ r.ResponseNonce # ""
         /\ r.ResponseNonce = watched[r.TypeUrl].NonceSent
         /\ SameMultiset(watched[r.TypeUrl].ResourceNames, r.ResourceNames)) =>
            LET sr    == shouldRespond(watched, r)
                again == shouldRespond(sr.watched, r)
            IN  /\ ~sr.respond
                /\ NoResponse(r)
                /\ sr.watched[r.TypeUrl].NonceAcked = sr.watched[r.TypeUrl].NonceSent
                /\ sr.watched[r.TypeUrl].NonceSent = watched[r.TypeUrl].NonceSent
                /\ sr.watched[r.TypeUrl].VersionAcked = r.VersionInfo
                /\ sr.watched[r.TypeUrl].NonceNacked = ""
                /\ ~again.respond
                /\ again.watched =
                      [sr.watched EXCEPT ![r.TypeUrl].LastRequest = <<r>>]

\* an ACK of the nonce of a push was processed, with the stored names in
\* another order
C6_Witness ==
    /\ RequestStep(FALSE)
    /\ last.sent = <<>>
    /\ SecretType \in DOMAIN watched
    /\ watched[SecretType].NonceSent = PushVersion(1)
    /\ watched[SecretType].NonceAcked = PushVersion(1)
    /\ watched[SecretType].LastRequest[1].ResponseNonce = PushVersion(1)
    /\ watched[SecretType].ResourceNames = <<"b", "a">>
    /\ watched[SecretType].LastSize = 2

\* C7 (RESOURCE-CHANGE), as claimed: in every reachable state, a request (no
\* ErrorDetail, not an unsubscribe) whose non-empty ResponseNonce is NonceSent
\* and whose ResourceNames differ from the stored ones as a multiset makes
\* shouldRespond return true, makes the writes of an ACK with the
\* ResourceNames of the request, and, when the generator yields resources and
\* the send succeeds, exactly one response of that type for the new names is
\* written.
C7_ResourceChangeResponds ==
    \A r \in Requests :
        (/\ ~r.ErrorDetail
         /\ ~IsUnsubscribe(r)
         /\ r.TypeUrl \in DOMAIN watched
         /\ r.ResponseNonce # ""
         /\ r.ResponseNonce = watched[r.TypeUrl].NonceSent
         /\ ~SameMultiset(watched[r.TypeUrl].ResourceNames, r.ResourceNames)) =>
            LET sr  == shouldRespond(watched, r)
                out == processRequest(watched, envPushVersion, r, "resources", "ok")
            IN  /\ sr.respond
                /\ sr.watched = [watched EXCEPT
                                    ![r.TypeUrl].VersionAcked = r.VersionInfo,
                                    ![r.TypeUrl].NonceAcked = r.ResponseNonce,
                                    ![r.TypeUrl].NonceNacked = "",
                                    ![r.TypeUrl].ResourceNames = r.ResourceNames,
                                    ![r.TypeUrl].LastRequest = <<r>>]
                /\ Len(out.sent) = 1
                /\ out.sent[1].TypeUrl = r.TypeUrl
                /\ out.sent[1].Resources = r.ResourceNames

\* C8, as claimed: the comparison of the stored ResourceNames of a watched
\* type with the ResourceNames of any request reports "equal" exactly when
\* the two lists hold the same strings with the same multiplicities.
C8_ListEqualUnorderedIsMultisetEquality ==
    \A t \in DOMAIN watched : \A b \in NameLists :
        listEqualUnordered(watched[t].ResourceNames, b)
            <=> SameMultiset(watched[t].ResourceNames, b)

\* C9, as claimed: after a step of the main task, for every response it wrote
\* to the stream, the WatchedResource of the response's type-URL has NonceSent
\* = VersionSent = the PushVersion of the PushContext the response was built
\* from.
C9_SentEqualsPushVersion ==
    \A i \in DOMAIN last.sent :
        LET t == last.sent[i].TypeUrl
        IN  /\ t \in DOMAIN watched
            /\ watched[t].NonceSent = last.version
            /\ watched[t].VersionSent = last.version

\* C9, amended: after a step of the main task, for every response it wrote to
\* the stream whose type-URL is not a debug type and whose nonce is not
\* empty, the response has VersionInfo = Nonce = the PushVersion of the
\* PushContext it was built from, and the WatchedResource of its type-URL has
\* NonceSent = VersionSent = that PushVersion.
C9_SentEqualsPushVersionUnlessDebugOrEmpty ==
    \A i \in DOMAIN last.sent :
        LET res == last.sent[i]
        IN  (res.Nonce # "" /\ ~HasPrefix(res.TypeUrl, DebugType)) =>
                /\ res.Nonce = last.version
                /\ res.VersionInfo = last.version
                /\ res.TypeUrl \in DOMAIN watched
                /\ watched[res.TypeUrl].NonceSent = last.version
                /\ watched[res.TypeUrl].VersionSent = last.version

\* a request-triggered response was written after a push had set another
\* NonceSent
C9_Witness ==
    /\ RequestStep(TRUE)
    /\ versionNum = 1
    /\ Len(last.sent) = 1
    /\ last.sent[1].TypeUrl = SecretType
    /\ last.sent[1].Nonce # ""
    /\ watched[SecretType].NonceAcked = PushVersion(1)
    /\ watched[SecretType].NonceSent = envPushVersion

\* C10, as claimed: in every reachable state, for every watched type-URL,
\* Synced reports "synced" if and only if NonceAcked = NonceSent.
C10_SyncedIffAcked ==
    \A t \in DOMAIN watched :
        Synced(watched, t) <=> (watched[t].NonceAcked = watched[t].NonceSent)

\* the connection of stream c is in the registry s.adsClients
InRegistry(c) == \E id \in DOMAIN adsClients : adsClients[id] = c

\* C11: once Stream has returned, whatever made it return (the request
\* channel closed, an error of the generator or of the send, Stop), the
\* connection is not in the connection registry.
C11_AbsentAfterStreamReturns ==
    \A c \in Conns : mainTask[c].pc = "returned" => ~InRegistry(c)

\* C12: the pushes a connection gets on its pushChannel come in the order in
\* which the global push channel accepted them (ConfigUpdate numbers them in
\* that order): a connection that gets two of them gets the earlier one first.
C12_PushesArriveInAcceptanceOrder ==
    \A c \in Conns :
        \A i, j \in DOMAIN received[c] :
            i < j => received[c][i].id < received[c][j].id

\* a connection has received both pushes
C12_Witness ==
    \E c \in Conns :
        /\ Len(received[c]) = 2
        /\ received[c][1].id = 1
        /\ received[c][2].id = 2

\* the deliveries of push k to connection c
Deliveries(c, k) == {i \in DOMAIN received[c] : received[c][i].id = k}

C14_MissingNodeIsInvalidArgument ==
    \A c \in Conns :
        /\ receiver[c].firstRequest => ~InRegistry(c) /\ proxy[c].ConID = ""
        /\ receiver[c].missingNode =>
              /\ ~InRegistry(c)
              /\ proxy[c].ConID = ""
              /\ reqChan[c].buf = <<>>
              /\ mainTask[c].handled = 0
              /\ received[c] = <<>>
              /\ mainTask[c].pc = "returned" =>
                    Code(mainTask[c].ret) = "InvalidArgument"

\* Stream has returned on a stream whose first request had no node id
C14_Witness ==
    \E c \in Conns :
        /\ receiver[c].missingNode
        /\ receiver[c].read = 1
        /\ mainTask[c].pc = "returned"
        /\ mainTask[c].ret = MissingNode

\* C15: health probes that arrive before the first normal request are
\* dropped: as long as none has arrived the connection is not initialized,
\* has no ConID, is not registered, and nothing is forwarded to or handled by
\* the main task.  The first message after them that is not a probe is the
\* first request: it has passed the node-id test, and initConnection runs or
\* has run on it, or it has failed the test and the receive task returns.
C15_ProbesBeforeFirstRequestAreDropped ==
    \A c \in Conns :
        receiver[c].probes > 0 =>
            IF receiver[c].firstRequest
            THEN /\ receiver[c].pc \in {"recv", "closeChans"}
                 /\ ~initialized[c]
                 /\ ~InRegistry(c)
                 /\ proxy[c] = [ConID |-> "", proxy |-> <<>>]
                 /\ receiver[c].msg = <<>>
                 /\ receiver[c].read = 0
                 /\ reqChan[c].buf = <<>>
                 /\ mainTask[c].handled = 0
            ELSE /\ receiver[c].read = 1
                 /\ reqChan[c].buf = <<>>
                 /\ mainTask[c].handled = 0
                 /\ \/ /\ receiver[c].missingNode
                       /\ receiver[c].pc = "closeChans"
                       /\ errorChan[c].buf = <<MissingNode>>
                    \/ /\ receiver[c].pc = "initConnection"
                       /\ receiver[c].msg[1].Node \notin {<<>>, <<"">>}
                       /\ receiver[c].msg[1].req.TypeUrl # HealthInfoType
                    \/ /\ receiver[c].pc = "closeChans"
                       /\ errorChan[c].buf = <<"metadataError">>
                    \/ /\ receiver[c].pc \in {"initializeProxy", "forward",
                                              "closeConnection", "closeChans"}
                       /\ proxy[c].ConID # ""
                       /\ receiver[c].pc = "forward" =>
                             initialized[c] /\ InRegistry(c)

\* after a health probe, the next message has initialized and registered the
\* connection and is about to be forwarded
C15_Witness ==
    \E c \in Conns :
        /\ receiver[c].probes > 0
        /\ ~receiver[c].firstRequest
        /\ receiver[c].pc = "forward"
        /\ initialized[c]
        /\ InRegistry(c)

\* C16: the Delta-xDS entrypoint fails at once, creates no connection and
\* leaves the registry alone, and its error has the status Unimplemented with
\* the message "delta ads is not supported".
C16_DeltaIsUnimplemented ==
    \A c \in Conns :
        mainTask[c].exit = "delta" =>
            /\ mainTask[c].pc = "returned"
            /\ receiver[c].pc = "none"
            /\ proxy[c].ConID = ""
            /\ ~InRegistry(c)
            /\ Code(mainTask[c].ret) = "Unimplemented"
            /\ mainTask[c].ret =
                  statusErr("Unimplemented", "delta ads is not supported")

\* C17: while a call of Stop() is pending on a connection whose main task is
\* in its select loop, the only step the main task takes is the one that
\* receives the stop signal and returns nil from Stream: it handles no
\* further request and no push, and does not return otherwise.
C17_StopReturnsNilAtOnce ==
    [][\A c \in Conns :
          (stopCall[c] /\ mainTask[c].pc = "select") =>
              \/ /\ mainTask'[c] = mainTask[c]
                 /\ received'[c] = received[c]
                 /\ proxy'[c] = proxy[c]
              \/ /\ mainTask'[c] = streamReturn(mainTask[c], "nil", "stop")
                 /\ received'[c] = received[c]
                 /\ proxy'[c] = proxy[c]]_vars

\* the INIT requests of a type that has a generator: no ErrorDetail, an empty
\* nonce, and not an unsubscribe
InitRequests ==
    {r \in Requests : /\ ~r.ErrorDetail
                      /\ r.ResponseNonce = ""
                      /\ ~shouldUnsubscribe(r)
                      /\ r.TypeUrl \in Generators}

\* what the connection emits for request r sent twice in a row, in a table
\* w, when the generator yields resources and the sends succeed
SentForTwice(w, r) ==
    LET first  == processRequest(w, envPushVersion, r, "resources", "ok")
        second == processRequest(first.watched, envPushVersion, r,
                                 "resources", "ok")
    IN  [first |-> first, second |-> second,
         sent |-> first.sent \o second.sent]

\* C18 as stated: two INIT requests for one type-URL with the same
\* ResourceNames, one after the other on a connection, get exactly one
\* response for that type-URL in total.
C18_DuplicateInitOneResponse ==
    \A r \in InitRequests :
        OneTypeAtATime(watched, r.TypeUrl) =>
            Len(SentForTwice(watched, r).sent) = 1

\* C18, amended: each of the two INIT requests gets its response, two in
\* total, both for the type-URL and the ResourceNames of the request; the
\* second INIT leaves the table as the first left it.
C18_DuplicateInitTwoResponses ==
    \A r \in InitRequests :
        OneTypeAtATime(watched, r.TypeUrl) =>
            LET t == SentForTwice(watched, r)
            IN  /\ Len(t.sent) = 2
                /\ \A i \in 1..2 :
                      /\ t.sent[i].TypeUrl = r.TypeUrl
                      /\ t.sent[i].Resources = r.ResourceNames
                /\ t.second.err = "nil"
                /\ t.second.watched = t.first.watched

\* the stream has answered an INIT that repeats the request before it
C18_Witness ==
    /\ RequestStep(TRUE)
    /\ last.repeat
    /\ Len(last.sent) = 1
    /\ \E t \in DOMAIN watched :
          /\ watched[t].LastRequest[1].ResponseNonce = ""
          /\ last.sent[1].TypeUrl = t
          /\ last.sent[1].Resources = watched[t].ResourceNames

\* C19: whatever requests and pushes a connection has handled, the
\* ResourceNames stored for a watched type are the ResourceNames of the
\* latest request for that type that was accepted (INIT, RECONNECT, ACK or
\* RESOURCE-CHANGE); as the history `accepted` changes only with such a
\* request, a NACK, a stale request and a push leave the stored names alone.
C19_StoredNamesAreLatestAccepted ==
    /\ DOMAIN watched = DOMAIN accepted
    /\ \A t \in DOMAIN watched : watched[t].ResourceNames = accepted[t]

\* a stale request with other names has just been handled, and the stored
\* names are still those of the accepted request
C19_Witness ==
    /\ RequestStep(FALSE)
    /\ \E t \in DOMAIN watched :
          /\ watched[t].LastRequest # <<>>
          /\ watched[t].LastRequest[1].ResponseNonce \notin
                {"", watched[t].NonceSent}
          /\ ~watched[t].LastRequest[1].ErrorDetail
          /\ watched[t].LastRequest[1].ResourceNames # watched[t].ResourceNames
          /\ watched[t].ResourceNames = accepted[t]
          /\ watched[t].ResourceNames # <<>>

\* C20: Merge is associative and nil is its identity: for the request a a
\* caller holds and all requests b and c, Merge(Merge(a, b), c) and
\* Merge(a, Merge(b, c)) are equal in Full, Push, Start, Reason and
\* ConfigsUpdated, Merge(nil, b) is b and Merge(a, nil) is a.
C20_MergeAssociativeNilIdentity ==
    \A b, c \in PushRequestPtrs :
        /\ Merge(Merge(merged, b), c) = Merge(merged, Merge(b, c))
        /\ Merge(Nil, b) = b
        /\ Merge(merged, Nil) = merged

\* the request held comes from merges (a reason counted twice, a union of
\* two keys) and merging two more requests into it changes every field
\* Merge writes
C20_Witness ==
    /\ merged # Nil
    /\ merged[1].Reason # Nil
    /\ \E k \in DOMAIN merged[1].Reason[1] : merged[1].Reason[1][k] = 2
    /\ merged[1].ConfigsUpdated = <<ConfigKeys>>
    /\ ~merged[1].Full
    /\ \E b, c \in PushRequestPtrs :
          /\ b # Nil /\ c # Nil
          /\ b[1].Push # Nil /\ c[1].Push # Nil /\ b[1].Push # c[1].Push
          /\ c[1].Push # merged[1].Push
          /\ lenSet(c[1].ConfigsUpdated) = 0
          /\ LET m == Merge(Merge(merged, b), c)
             IN  /\ m[1].Push = c[1].Push
                 /\ m[1].Full
                 /\ m[1].Start = merged[1].Start
                 /\ m[1].ConfigsUpdated = Nil
                 /\ \E k \in DOMAIN m[1].Reason[1] : m[1].Reason[1][k] = 4

\* how often reason k is counted in the ReasonStats behind r (nil: never)
CountOf(r, k) == IF r # Nil /\ k \in DOMAIN r[1] THEN r[1][k] ELSE 0

\* the keys of the ConfigsUpdated behind s (nil: none)
KeysOf(s) == IF s = Nil THEN {} ELSE s[1]

\* C21: for the non-nil request a a caller holds and every non-nil b,
\* Merge(a, b) has Full = a.Full or b.Full, the Push of b if b has one and
\* else that of a, the Start of a, every reason counted as often as in a and
\* in b together, and no ConfigsUpdated if a or b has none, else their union.
C21_MergeFieldByField ==
    merged # Nil =>
        \A other \in PushRequestPtrs \ {Nil} :
            LET a == merged[1]
                b == other[1]
                m == Merge(merged, other)[1]
            IN  /\ m.Full = (a.Full \/ b.Full)
                /\ m.Push = (IF b.Push # Nil THEN b.Push ELSE a.Push)
                /\ m.Start = a.Start
                /\ \A k \in TriggerReasons :
                      CountOf(m.Reason, k)
                          = CountOf(a.Reason, k) + CountOf(b.Reason, k)
                /\ KeysOf(m.ConfigsUpdated) =
                      IF KeysOf(a.ConfigsUpdated) = {}
                            \/ KeysOf(b.ConfigsUpdated) = {}
                      THEN {}
                      ELSE KeysOf(a.ConfigsUpdated) \cup KeysOf(b.ConfigsUpdated)

\* the request held is the result of a merge of two requests with the
\* reason and with different keys, and it keeps the Push and the Start of the
\* first because the second had no Push
C21_Witness ==
    /\ merged # Nil
    /\ \E a, b \in PushRequestPtrs \ {Nil} :
          /\ merged = Merge(a, b)
          /\ a[1].Full # b[1].Full
          /\ a[1].Push # Nil /\ b[1].Push = Nil
          /\ a[1].Start # b[1].Start
          /\ KeysOf(a[1].ConfigsUpdated) # {}
          /\ KeysOf(b[1].ConfigsUpdated) # {}
          /\ KeysOf(a[1].ConfigsUpdated) # KeysOf(b[1].ConfigsUpdated)
          /\ \E k \in TriggerReasons :
                CountOf(a[1].Reason, k) = 1 /\ CountOf(b[1].Reason, k) = 1
          /\ merged[1].Push = a[1].Push
          /\ merged[1].Start = a[1].Start
          /\ merged[1].Full
          /\ merged[1].ConfigsUpdated = <<ConfigKeys>>

\* C22: no push request handed to ConfigUpdate is dropped or overtaken: the
\* global push channel never holds more than its capacity (a caller that
\* finds it full waits), it holds, in the order of the calls, exactly the
\* requests enqueued and not yet consumed, and the request the engine
\* consumed as its n-th is the n-th that was enqueued.
C22_ConfigUpdateFifoNoDrop ==
    /\ Len(pushChannel) <= PushChannelCap
    /\ Len(pushChannel) = engine.enqueued - engine.versionNum
    /\ \A i \in DOMAIN pushChannel :
          pushChannel[i].id = engine.versionNum + i
    /\ engine.versionNum > 0 => engine.req[1].id = engine.versionNum

\* the channel is full again after the engine has consumed a request, and
\* the last request that fits has been enqueued
C22_Witness ==
    /\ Len(pushChannel) = PushChannelCap
    /\ engine.versionNum = 1
    /\ engine.req[1].id = 1
    /\ engine.enqueued = PushChannelCap + 1

\* the PushVersions of the pushes connection c has received
VersionsReceived(c) == {received[c][i].version : i \in DOMAIN received[c]}

\* C23: versionNum is the number of push requests the engine has consumed
\* (one increment for each), the request consumed last carries the
\* PushVersion of that count, a push consumed later carries a larger count
\* than every earlier one, and two pushes never have the same PushVersion.
C23_VersionNumCountsConsumedPushes ==
    /\ engine.versionNum = engine.enqueued - Len(pushChannel)
    /\ engine.versionNum > 0 =>
          engine.req[1].Push = <<PushVersion(engine.versionNum)>>
    /\ \A m \in 1..(engine.versionNum - 1) :
          PushVersion(m) # PushVersion(engine.versionNum)
    /\ \A c \in Conns :
          /\ \A i \in DOMAIN received[c] :
                /\ received[c][i].id \in 1..engine.versionNum
                /\ received[c][i].version = PushVersion(received[c][i].id)
          /\ \A i, j \in DOMAIN received[c] :
                /\ i < j => received[c][i].id < received[c][j].id
                /\ i # j => received[c][i].version # received[c][j].version

\* a connection has received three pushes, with three PushVersions
C23_Witness ==
    \E c \in Conns :
        /\ Len(received[c]) = 3
        /\ Cardinality(VersionsReceived(c)) = 3
        /\ engine.versionNum = 3

\* the latest step answered a request of an already watched type that
\* carried the nonce sent before: a RESOURCE-CHANGE
ResourceChangeStep(t) ==
    /\ RequestStep(TRUE)
    /\ t \in last.before
    /\ t \in DOMAIN watched
    /\ watched[t].LastRequest # <<>>
    /\ watched[t].LastRequest[1].ResponseNonce # ""

\* C24: the global push context is the latest snapshot the engine has built:
\* the response to a request handled after a push has the PushVersion of
\* that push, and the response to a RESOURCE-CHANGE has a nonce other than
\* the one the request acknowledges.
C24_RequestResponseHasFreshVersion ==
    RequestStep(TRUE) =>
        \A i \in DOMAIN last.sent :
            /\ versionNum > 0 =>
                  last.sent[i].VersionInfo = PushVersion(versionNum)
            /\ \A t \in DOMAIN watched :
                  ResourceChangeStep(t) =>
                      last.sent[i].Nonce #
                          watched[t].LastRequest[1].ResponseNonce

\* C25: initConnection gives the connection its ConID and registers it
\* before the `initialized` barrier is closed: when initializeProxy is about
\* to run, the barrier is open and the connection is in the registry under
\* its ConID; and whenever the barrier of a connection that has a ConID is
\* closed, the connection is registered, unless the receive task has
\* removed it again on its way out.
C25_RegisteredBeforeInitialized ==
    \A c \in Conns :
        /\ receiver[c].pc = "initializeProxy" =>
              /\ ~initialized[c]
              /\ proxy[c].ConID # ""
              /\ proxy[c].ConID \in DOMAIN adsClients
              /\ adsClients[proxy[c].ConID] = c
        /\ (initialized[c] /\ proxy[c].ConID # "") =>
              \/ /\ proxy[c].ConID \in DOMAIN adsClients
                 /\ adsClients[proxy[c].ConID] = c
              \/ receiver[c].pc \in {"closeChans", "done"}

\* the barrier of a connection has been closed by a successful
\* initialization: the main task is in its loop, the receive task goes on,
\* and the connection is registered
C25_Witness ==
    \E c \in Conns :
        /\ initialized[c]
        /\ receiver[c].deferClose
        /\ receiver[c].pc \in {"forward", "recv"}
        /\ mainTask[c].pc = "select"
        /\ InRegistry(c)

\* C26: when the receive task has returned, by whatever path, errorChan and
\* reqChan are closed and the `initialized` barrier is closed, and a main
\* task that waits at the barrier or at its select is not blocked: it can
\* pass the barrier, take a request still buffered in reqChan, or see the
\* closed channel and return.
C26_ReceiveExitReleasesMain ==
    \A c \in Conns :
        receiver[c].pc = "done" =>
            /\ errorChan[c].closed
            /\ reqChan[c].closed
            /\ initialized[c]
            /\ mainTask[c].pc = "waitInit" => ENABLED MainInitialized(c)
            /\ mainTask[c].pc = "select" =>
                  ENABLED (MainRequest(c) \/ MainClosed(c))

\* the receive task has returned before the connection was initialized
\* while the main task waits at the barrier
C26_Witness ==
    \E c \in Conns :
        /\ receiver[c].pc = "done"
        /\ ~receiver[c].deferClose
        /\ proxy[c].ConID = ""
        /\ mainTask[c].pc = "waitInit"
        /\ initialized[c]

\* C27: no task panics on a second close of a channel; `initialized` is
\* closed once, by initConnection or, if that has not happened, by the
\* function the receive task defers; errorChan and reqChan are closed by
\* that function only, as the last step of the receive task; and a value is
\* put into errorChan or reqChan only while the channel is open.
C27_ChannelsClosedOnceByOwner ==
    /\ [](\A c \in Conns : receiver[c].pc # "panic")
    /\ [][\A c \in Conns :
             /\ initialized'[c] # initialized[c] =>
                   /\ ~initialized[c]
                   /\ \/ /\ receiver[c].pc = "initializeProxy"
                         /\ receiver'[c].pc = "forward"
                      \/ /\ receiver[c].pc = "closeChans"
                         /\ receiver'[c].pc = "done"
                         /\ ~receiver[c].deferClose
             /\ (\/ errorChan'[c].closed # errorChan[c].closed
                 \/ reqChan'[c].closed # reqChan[c].closed) =>
                   /\ ~errorChan[c].closed /\ errorChan'[c].closed
                   /\ ~reqChan[c].closed /\ reqChan'[c].closed
                   /\ receiver[c].pc = "closeChans"
                   /\ receiver'[c].pc = "done"
             /\ Len(errorChan'[c].buf) > Len(errorChan[c].buf) =>
                   ~errorChan[c].closed /\ ~errorChan'[c].closed
             /\ Len(reqChan'[c].buf) > Len(reqChan[c].buf) =>
                   ~reqChan[c].closed /\ ~reqChan'[c].closed]_vars

\* the receive task of an initialized connection has returned: the barrier
\* was closed by initConnection, and the deferred function has closed the
\* other two channels and found the barrier closed
C27_Witness ==
    \E c \in Conns :
        /\ receiver[c].pc = "done"
        /\ receiver[c].deferClose
        /\ proxy[c].ConID # ""
        /\ initialized[c]
        /\ errorChan[c].closed
        /\ reqChan[c].closed

\* C28: when Recv() has failed and Stream returns because it found reqChan
\* closed, it returns nil after an expected termination and the error of
\* Recv() after any other failure; by then the main task has taken every
\* request the receive task had forwarded, and reqChan is empty.
C28_RecvFailureEndsStream ==
    \A c \in Conns :
        (receiver[c].recvErr # "none" /\ mainTask[c].exit = "closed") =>
            /\ mainTask[c].pc = "returned"
            /\ mainTask[c].ret = IF receiver[c].recvErr = "expected"
                                 THEN "nil" ELSE "recvError"
            /\ reqChan[c].buf = <<>>
            /\ mainTask[c].handled = receiver[c].read

\* on one stream Recv() failed unexpectedly after a request had been
\* forwarded, and the main task has handled the request and then returned
\* the error of Recv(); on another Recv() ended as expected, and Stream has
\* returned nil
C28_Witness ==
    \E c, d \in Conns :
        /\ receiver[c].recvErr = "unexpected"
        /\ receiver[c].read = 1
        /\ mainTask[c].exit = "closed"
        /\ mainTask[c].handled = 1
        /\ mainTask[c].ret = "recvError"
        /\ receiver[d].recvErr = "expected"
        /\ mainTask[d].exit = "closed"
        /\ mainTask[d].ret = "nil"

\* the fields of the WatchedResource of type t that Connection.send writes
\* (Go's zero values when the table has no entry for t)
SentBookkeeping(w, t) ==
    IF t \in DOMAIN w
    THEN <<w[t].NonceSent, w[t].VersionSent, w[t].LastSent, w[t].LastSize>>
    ELSE <<"", "", "zero", 0>>

\* the positions of step.order whose type has a generator that returns an
\* error when it is called
ErrorPositions(step) ==
    {i \in DOMAIN step.order : /\ step.order[i] \in Generators
                               /\ step.outcome[i][1] = "error"}

\* the first of them: the call of a generator that fails
FirstErrorPosition(step) ==
    CHOOSE i \in ErrorPositions(step) : \A j \in ErrorPositions(step) : i <= j

\* C29: when a generator returns an error while the main task serves a
\* request or a push, the step sends no response for the type of that
\* generator nor for any type that follows it in the push, leaves the
\* bookkeeping of those types as it was (the fields written by send, and for
\* a push the whole WatchedResource), and Stream returns the error of the
\* generator.
C29_GeneratorErrorEndsStream ==
    [][ErrorPositions(last') # {} =>
          LET k    == FirstErrorPosition(last')
              rest == {last'.order[j] : j \in k..Len(last'.order)}
          IN  /\ \A i \in DOMAIN last'.sent : last'.sent[i].TypeUrl \notin rest
              /\ \A t \in rest :
                    /\ SentBookkeeping(watched', t) = SentBookkeeping(watched, t)
                    /\ last'.op = "push" => watched'[t] = watched[t]
              /\ last'.err = "generatorError"
              /\ streamState' = "returned"
              /\ streamErr' = "generatorError"]_vars

\* a push over three watched types whose second generator failed: the first
\* type got its response, and Stream has returned the error
C29_Witness ==
    /\ last.op = "push"
    /\ Len(last.order) = 3
    /\ ErrorPositions(last) # {}
    /\ FirstErrorPosition(last) = 2
    /\ Len(last.sent) = 1
    /\ last.sent[1].TypeUrl = last.order[1]
    /\ streamState = "returned"
    /\ streamErr = "generatorError"

\* the positions of step.order that pushXds is called for: those with no
\* failing generator before them
CalledPositions(step) ==
    {i \in DOMAIN step.order : \A j \in ErrorPositions(step) : i <= j}

\* the called positions whose type has no generator, or whose generator
\* returns nil resources and no error
SkippedPositions(step) ==
    {i \in CalledPositions(step) : \/ step.order[i] \notin Generators
                                   \/ step.outcome[i][1] = "nil"}

\* C30: a call of pushXds for a type without a generator, or whose generator
\* returns nil resources and no error, sends no response for the type and
\* leaves its bookkeeping as it was (the fields written by send, and for a
\* push the whole WatchedResource); it returns no error: unless a generator
\* fails the step returns nil and the stream goes on, and every type after
\* it that is called for, has a generator with resources and a working
\* transport gets its response of the version of the step.
C30_SkippedTypeIsNotFatal ==
    [][\A i \in SkippedPositions(last') :
          LET t == last'.order[i]
          IN  /\ \A n \in DOMAIN last'.sent : last'.sent[n].TypeUrl # t
              /\ SentBookkeeping(watched', t) = SentBookkeeping(watched, t)
              /\ last'.op = "push" => watched'[t] = watched[t]
              /\ ErrorPositions(last') = {} =>
                    /\ last'.err = "nil"
                    /\ streamState' = "running"
                    /\ streamErr' = "nil"
              /\ \A j \in CalledPositions(last') :
                    (/\ j > i
                     /\ last'.order[j] \in Generators
                     /\ last'.outcome[j] = <<"resources", "ok">>) =>
                        \E n \in DOMAIN last'.sent :
                            /\ last'.sent[n].TypeUrl = last'.order[j]
                            /\ last'.sent[n].VersionInfo = last'.version
                            /\ last'.sent[n].Nonce = last'.version]_vars

\* a push over three watched types: the first has no generator, the
\* generator of the second returned nil, the third got the only response of
\* the push, and the stream goes on
C30_Witness ==
    /\ last.op = "push"
    /\ Len(last.order) = 3
    /\ last.order[1] \notin Generators
    /\ last.order[2] \in Generators
    /\ last.outcome[2][1] = "nil"
    /\ last.order[3] \in Generators
    /\ last.outcome[3] = <<"resources", "ok">>
    /\ Len(last.sent) = 1
    /\ last.sent[1].TypeUrl = last.order[3]
    /\ last.err = "nil"
    /\ streamState = "running"

\* the type-URLs of the responses of a step, in the order they were sent
SentTypes(step) == [n \in DOMAIN step.sent |-> step.sent[n].TypeUrl]

\* C31: in one push on one connection the loop of pushConnection ranges over
\* every watched type-URL exactly once, the secret type first when it is
\* watched; so no type gets two responses, a response of the secret type is
\* the first response of the push, and when no generator fails exactly the
\* watched types whose generator gave resources and whose send worked get a
\* response.
C31_PushFollowsPushOrder ==
    last.op = "push" =>
        /\ \A m, n \in DOMAIN last.sent :
              SentTypes(last)[m] = SentTypes(last)[n] => m = n
        /\ \A n \in DOMAIN last.sent :
              SentTypes(last)[n] = SecretType => n = 1
        /\ last.order # <<>> =>
              /\ Len(last.order) = Cardinality(last.before)
              /\ {last.order[i] : i \in DOMAIN last.order} = last.before
              /\ SecretType \in last.before => last.order[1] = SecretType
              /\ ErrorPositions(last) = {} =>
                    {SentTypes(last)[n] : n \in DOMAIN last.sent} =
                        {last.order[i] : i \in
                            {j \in DOMAIN last.order :
                                /\ last.order[j] \in Generators
                                /\ last.outcome[j] = <<"resources", "ok">>}}

\* a push to a connection that watches the three types, all with a working
\* generator: three responses, the one of the secret type first
C31_Witness ==
    /\ last.op = "push"
    /\ last.before = TypeUrls
    /\ Len(last.sent) = 3
    /\ last.sent[1].TypeUrl = SecretType
    /\ last.err = "nil"

\* the positions of step.order that pushXds is called for and whose
\* generator gives resources, so that Connection.send is called
SendPositions(step) ==
    {i \in CalledPositions(step) : /\ step.order[i] \in Generators
                                   /\ step.outcome[i][1] = "resources"}

\* C32: send writes NonceSent, VersionSent, LastSent and LastSize only after
\* a send that worked, of a response whose type-URL is not a debug type (and
\* whose nonce is not empty); after a failed send or a response of a debug
\* type the WatchedResource of the type keeps these fields, and a failed
\* send makes Stream return the error of the send.
C32_SendBookkeepingAndFailure ==
    [][\A i \in SendPositions(last') :
          LET t == last'.order[i]
          IN  /\ (\/ last'.outcome[i][2] = "fail"
                  \/ HasPrefix(t, DebugType)) =>
                     SentBookkeeping(watched', t) = SentBookkeeping(watched, t)
              /\ (/\ last'.outcome[i][2] = "ok"
                  /\ ~HasPrefix(t, DebugType)
                  /\ last'.version # ""
                  /\ \A j \in SendPositions(last') :
                        j < i => last'.outcome[j][2] = "ok") =>
                     /\ watched'[t].NonceSent = last'.version
                     /\ watched'[t].VersionSent = last'.version
                     /\ watched'[t].LastSent = "set"
              /\ last'.outcome[i][2] = "fail" =>
                     /\ last'.err = "sendError"
                     /\ streamState' = "returned"
                     /\ streamErr' = "sendError"]_vars

\* the receive task of stream c is returning: Recv() failed, the stream
\* context was done, or the first request was refused
ReceiveReturns(c) == receiver[c].pc \in {"closeConnection", "closeChans"}

\* C33: once the receive task of a stream returns (the peer has gone, the
\* context is cancelled), under fair scheduling it terminates, the main task
\* returns from Stream and the connection is no longer in the registry.
C33_DisconnectCleansUp ==
    \A c \in LiveConns :
        ReceiveReturns(c) ~>
            /\ receiver[c].pc = "done"
            /\ mainTask[c].pc = "returned"
            /\ ~InRegistry(c)

\* a stream that was registered, whose Recv() failed, whose receive task is
\* done and whose main task has returned because reqChan was closed
C33_Witness ==
    \E c \in LiveConns :
        /\ receiver[c].recvErr # "none"
        /\ proxy[c].ConID # ""
        /\ receiver[c].pc = "done"
        /\ mainTask[c].pc = "returned"
        /\ mainTask[c].exit = "closed"
        /\ ~InRegistry(c)

\* C34: when the node metadata of a proxy names a generator that is
\* registered, initializeProxy binds that generator to the proxy, the
\* binding stays for the lifetime of the stream, and every response of the
\* proxy is built by it.
C34_BoundGeneratorBuildsResponses ==
    /\ (/\ dispatch.proxy.initialized
        /\ dispatch.proxy.Generator # "") =>
           dispatch.proxy.XdsResourceGenerator =
               lookup(dispatch.Generators, nameKey(dispatch.proxy.Generator))
    /\ dispatch.proxy.XdsResourceGenerator # <<>> =>
           \A i \in DOMAIN dispatch.built :
               dispatch.built[i].by = dispatch.proxy.XdsResourceGenerator[1]

\* C35: the engine delivers a push without head-of-line blocking: a
\* connection of the snapshot whose main task is not reading its pushChannel
\* does not delay the delivery to the others, so a connection that has yet to
\* get the push and whose main task is at its select can be served at once.
C35_NoHeadOfLineBlocking ==
    \A d \in Conns :
        (/\ engine.pc = "fanout"
         /\ \E i \in DOMAIN engine.targets : engine.targets[i] = d
         /\ mainTask[d].pc = "select"
         /\ mainTask[Head(engine.targets)].pc # "select") =>
            ENABLED Deliver(d)

\* C36: a push request the engine has consumed completes its fan-out, so
\* that the engine is ready for the next request, even when a connection of
\* its snapshot has a main task that has returned: whenever the engine is in
\* the loop of startPush it eventually leaves it.
C36_FanOutCompletes ==
    (engine.pc = "fanout") ~> (engine.pc = "idle")

\* C37: for the non-nil request a a caller holds and every non-nil b,
\* CopyMerge(a, b) has the Full, Push, Start, Reason counts and
\* ConfigsUpdated keys of Merge(a, b).
C37_CopyMergeEqualsMerge ==
    merged # Nil =>
        \A other \in PushRequestPtrs \ {Nil} :
            LET m == Merge(merged, other)[1]
                c == CopyMerge(merged, other)[1]
            IN  /\ c.Full = m.Full
                /\ c.Push = m.Push
                /\ c.Start = m.Start
                /\ \A k \in TriggerReasons :
                      CountOf(c.Reason, k) = CountOf(m.Reason, k)
                /\ KeysOf(c.ConfigsUpdated) = KeysOf(m.ConfigsUpdated)

\* C38: in every reachable state a request with ErrorDetail, whatever its
\* type-URL, nonce and ResourceNames, is handled by the ErrorDetail branch:
\* shouldRespond returns false, no response is written, the table keeps its
\* type-URLs (no WatchedResource is created, none deleted), and every
\* WatchedResource keeps its ResourceNames and every field but NonceNacked.
C38_ErrorDetailTakesPrecedence ==
    \A r \in Requests :
        r.ErrorDetail =>
            LET sr == shouldRespond(watched, r)
            IN  /\ ~sr.respond
                /\ NoResponse(r)
                /\ DOMAIN sr.watched = DOMAIN watched
                /\ \A t \in DOMAIN watched :
                      /\ sr.watched[t].ResourceNames = watched[t].ResourceNames
                      /\ [sr.watched[t] EXCEPT !.NonceNacked = ""] =
                             [watched[t] EXCEPT !.NonceNacked = ""]

\* before any push, the secret type is watched with its names and its
\* WatchedResource holds a NACK of a nonce the server has not sent: the last
\* request carried ErrorDetail and a nonce of its own, got no response and
\* deleted nothing
C38_Witness ==
    /\ RequestStep(FALSE)
    /\ last.sent = <<>>
    /\ versionNum = 0
    /\ last.before = {SecretType}
    /\ SecretType \in DOMAIN watched
    /\ watched[SecretType].ResourceNames # <<>>
    /\ watched[SecretType].NonceNacked = PushVersion(1)
    /\ watched[SecretType].NonceSent # PushVersion(1)

\* the connection of stream c has been registered by initConnection and its
\* receive task has not yet run the deferred closeConnection
LiveConnection(c) ==
    /\ proxy[c].ConID # ""
    /\ receiver[c].pc \notin {"closeChans", "done", "panic"}

\* C39: connection IDs are unique across the streams, those of proxies with
\* the same node id included: no two streams have the same ConID, every
\* registry entry is the connection that has that ConID, every registered
\* connection that was not removed is in the registry under its ConID, and
\* the registry has as many entries as there are such connections.
C39_ConnectionIdsAreUnique ==
    /\ \A c, d \in Conns :
          (proxy[c].ConID # "" /\ proxy[c].ConID = proxy[d].ConID) => c = d
    /\ \A id \in DOMAIN adsClients : proxy[adsClients[id]].ConID = id
    /\ \A c \in Conns :
          LiveConnection(c) =>
              /\ proxy[c].ConID \in DOMAIN adsClients
              /\ adsClients[proxy[c].ConID] = c
    /\ Cardinality(DOMAIN adsClients) =
          Cardinality({c \in Conns : LiveConnection(c)})

\* two streams of proxies with the same node id are registered at once,
\* under two ConIDs
C39_Witness ==
    \E c, d \in Conns :
        /\ c # d
        /\ LiveConnection(c) /\ LiveConnection(d)
        /\ receiver[c].pc = "recv" /\ receiver[d].pc = "recv"
        /\ proxy[c].ConID # proxy[d].ConID
        /\ Cardinality(DOMAIN adsClients) = 2

\* con.proxy is set and its WatchedResources is a map, not nil
ProxyReady(c) ==
    /\ proxy[c].ConID # ""
    /\ proxy[c].proxy # <<>>
    /\ proxy[c].proxy[1].WatchedResources # <<>>

\* C40: the main task never processes a request or a push on a connection
\* whose proxy is unset or whose watched-resource table is nil: a request is
\* in reqChan, or about to be put there, only after initConnection succeeded;
\* the engine serves only connections that addCon registered; the main task
\* is past its wait only when initialized is closed; and whenever the main
\* task can take a request or a push, or has taken one, the proxy is set and
\* its table is a map.
C40_MainTaskSeesInitializedProxy ==
    \A c \in Conns :
        /\ (reqChan[c].buf # <<>> \/ receiver[c].pc = "forward")
              => (ProxyReady(c) /\ initialized[c])
        /\ \A i \in DOMAIN engine.targets :
              engine.targets[i] = c => proxy[c].ConID # ""
        /\ mainTask[c].pc = "select" => initialized[c]
        /\ (mainTask[c].pc = "select" /\ reqChan[c].buf # <<>>)
              => ProxyReady(c)
        /\ (/\ mainTask[c].pc = "select"
            /\ engine.pc = "fanout"
            /\ Head(engine.targets) = c) => ProxyReady(c)
        /\ (mainTask[c].handled > 0 \/ received[c] # <<>>)
              => (ProxyReady(c) /\ initialized[c])

\* the engine took its snapshot between addCon and initializeProxy, so it
\* holds a push for a connection whose table is still nil while the main
\* task of that connection waits for initialized, and the main task of
\* another stream, whose receive task returned before initConnection, is at
\* its select with no proxy
C40_Witness ==
    \E c, d \in Conns :
        /\ engine.pc = "fanout"
        /\ Head(engine.targets) = c
        /\ receiver[c].pc = "initializeProxy"
        /\ ~ProxyReady(c)
        /\ mainTask[c].pc = "waitInit"
        /\ mainTask[d].pc = "select"
        /\ proxy[d].proxy = <<>>

====
